---- MODULE Spec2Model ----
(***************************************************************************)
(* Model of the Mikrotik Router controller                                 *)
(* (custom_components/mikrotik_router/mikrotik_controller.py).             *)
(*                                                                         *)
(* self.data is the record `data`; every collection in it is a Python dict *)
(* and is modelled as an ordered dict: a sequence of [k |-> key, v |->     *)
(* record] pairs in insertion order.  A record (the inner dict of one      *)
(* entry) is a function from field names to values.                        *)
(*                                                                         *)
(* The poll orchestrator (async_update, hwinfo_update,                     *)
(* async_fwupdate_check) is modelled as asyncio tasks; a task's position   *)
(* is pc[t], and one action is one stretch of code between two awaits      *)
(* (an executor job together with the resumption that follows it).         *)
(***************************************************************************)
EXTENDS Integers, Sequences, FiniteSets, TLC

VARIABLES
    pc,           \* position of every task
    lock,         \* self.lock (asyncio.Lock): TRUE when locked
    sent,         \* signal_update dispatches made by each task in its current run
    data,         \* self.data
    nat_removed,  \* self.nat_removed (set of the names that are its keys)
    nat_log,      \* the names of the _LOGGER.error records of get_nat, in order
    src,          \* per API path: the records the last call of api.path returned
    track_arp,    \* option_track_arp
    now,          \* the time utcnow() returns
    probes,       \* the api.arp_ping calls of the last run of process_host
    traffic_type, \* option_traffic_type
    remote,       \* the last remote action: the call, the arguments of its
                  \* API calls, what the API did and what the caller got
    switches,     \* the switches dict of async_setup_entry, in insertion
                  \* order
    added         \* the last run of update_items: the arguments of its
                  \* async_add_entities calls, the item ids it scheduled
                  \* for a refresh and the item ids that were disabled in
                  \* the entity registry

vars == <<pc, lock, sent, data, nat_removed, nat_log, src, track_arp, now,
          probes, traffic_type, remote, switches, added>>

-----------------------------------------------------------------------------
(* Python dicts as ordered dicts *)

EmptyRec == [f \in {} |-> ""]

Keys(od) == {od[i].k : i \in DOMAIN od}

Has(od, k) == k \in Keys(od)

Idx(od, k) == CHOOSE i \in DOMAIN od : od[i].k = k

Get(od, k) == od[Idx(od, k)].v

Put(od, k, v) ==
    IF Has(od, k) THEN [od EXCEPT ![Idx(od, k)].v = v]
    ELSE Append(od, [k |-> k, v |-> v])

RECURSIVE Del(_, _)
Del(od, k) ==
    IF Len(od) = 0 THEN od
    ELSE IF Head(od).k = k THEN Tail(od)
    ELSE <<Head(od)>> \o Del(Tail(od), k)

-----------------------------------------------------------------------------
(* helper.py: from_entry, from_entry_bool, parse_api *)

from_entry(entry, param, default) ==
    IF param \in DOMAIN entry THEN entry[param] ELSE default

from_entry_bool(entry, param, default, reverse) ==
    IF param \notin DOMAIN entry THEN default
    ELSE IF reverse THEN ~entry[param] ELSE entry[param]

\* One field specification of a vals list.
StrVal(name, source, default) ==
    [name |-> name, source |-> source, type |-> "str", default |-> default,
     default_val |-> "", reverse |-> FALSE]

ChainVal(name, default_val) ==
    [name |-> name, source |-> name, type |-> "str", default |-> "",
     default_val |-> default_val, reverse |-> FALSE]

BoolVal(name, source, reverse) ==
    [name |-> name, source |-> source, type |-> "bool", default |-> FALSE,
     default_val |-> "", reverse |-> reverse]

\* vals: every listed field is (over)written from the raw record, or with
\* its default (a literal, or for a default-chain the already resolved
\* output field default_val) when the raw record does not carry it.
RECURSIVE fill_vals(_, _, _)
fill_vals(rec, entry, vals) ==
    IF Len(vals) = 0 THEN rec
    ELSE LET val == Head(vals)
             dflt == IF val.default_val # "" /\ val.default_val \in DOMAIN rec
                     THEN rec[val.default_val] ELSE val.default
             value == IF val.type = "bool"
                      THEN from_entry_bool(entry, val.source, val.default, val.reverse)
                      ELSE from_entry(entry, val.source, dflt)
         IN fill_vals((val.name :> value) @@ rec, entry, Tail(vals))

\* ensure_vals: a listed field absent from the record gets its default; a
\* field the record already carries is left as it is.
RECURSIVE fill_ensure_vals(_, _)
fill_ensure_vals(rec, ensure_vals) ==
    IF Len(ensure_vals) = 0 THEN rec
    ELSE LET val == Head(ensure_vals)
         IN fill_ensure_vals(IF val.name \in DOMAIN rec THEN rec
                             ELSE (val.name :> val.default) @@ rec,
                             Tail(ensure_vals))

\* Singleton records with an empty source: missing fields get defaults.
RECURSIVE fill_defaults(_, _)
fill_defaults(rec, vals) ==
    IF Len(vals) = 0 THEN rec
    ELSE LET val == Head(vals)
         IN fill_defaults(IF val.name \in DOMAIN rec THEN rec
                          ELSE (val.name :> val.default) @@ rec,
                          Tail(vals))

\* val_proc with action "combine": name = record[a] + text + record[b];
\* proc is <<>> (none) or <<name, a, text, b>>.
fill_vals_proc(rec, proc) ==
    IF Len(proc) = 0 THEN rec
    ELSE (proc[1] :> (rec[proc[2]] \o proc[3] \o rec[proc[4]])) @@ rec

\* only: <<>> (no filter) or <<key, value>>.
matches_only(entry, only) ==
    Len(only) = 0 \/ (only[1] \in DOMAIN entry /\ entry[only[1]] = only[2])

\* parse_api for a keyed collection: the records of source, in order, are
\* overlaid field by field on the entries of data; entries of data that
\* source does not name are retained; a raw record without the key field,
\* or failing the only-filter, is skipped.
RECURSIVE parse_api(_, _, _, _, _, _, _)
parse_api(coll, source, key, vals, ensure_vals, val_proc, only) ==
    IF Len(source) = 0 THEN coll
    ELSE LET entry == Head(source)
             rest == Tail(source)
         IN IF ~matches_only(entry, only) \/ key \notin DOMAIN entry
            THEN parse_api(coll, rest, key, vals, ensure_vals, val_proc, only)
            ELSE LET uid == entry[key]
                     old == IF Has(coll, uid) THEN Get(coll, uid) ELSE EmptyRec
                     new == fill_vals_proc(
                                fill_ensure_vals(fill_vals(old, entry, vals),
                                                 ensure_vals),
                                val_proc)
                 IN parse_api(Put(coll, uid, new), rest, key, vals,
                              ensure_vals, val_proc, only)

\* parse_api for a singleton record (no key): every record of source is
\* mapped onto it in turn; with an empty source the missing fields get
\* their defaults.
RECURSIVE parse_api_single(_, _, _)
parse_api_single(rec, source, vals) ==
    IF Len(source) = 0 THEN fill_defaults(rec, vals)
    ELSE IF Len(source) = 1 THEN fill_vals(rec, source[1], vals)
    ELSE parse_api_single(fill_vals(rec, source[1], vals), Tail(source), vals)

-----------------------------------------------------------------------------
(* get_firmware_update *)

FwUpdateVals ==
    <<StrVal("status", "status", ""),
      StrVal("channel", "channel", "unknown"),
      StrVal("installed-version", "installed-version", "unknown"),
      StrVal("latest-version", "latest-version", "unknown")>>

\* get_firmware_update as it would be if available were written only when
\* a new version is reported.
get_firmware_update_flag_when_new(d, source) ==
    LET fw == parse_api_single(d.fw_update, source, FwUpdateVals)
    IN [d EXCEPT !.fw_update =
           IF "status" \in DOMAIN fw /\ fw["status"] = "New version is available"
           THEN ("available" :> TRUE) @@ fw ELSE fw]

\* Lines 566-586.
get_firmware_update(d, source) ==
    LET fw ==parse_api_single(d.fw_update, source, FwUpdateVals)
        available == IF "status" \in DOMAIN fw
                     THEN fw["status"] = "New version is available"
                     ELSE FALSE
    IN [d EXCEPT !.fw_update = ("available" :> available) @@ fw]

-----------------------------------------------------------------------------
(* get_interface *)

\* InterfaceVals as it would be if name had a literal default instead of
\* the default chain.
InterfaceVals_literal_name ==
    <<StrVal("default-name", "default-name", ""),
      StrVal("name", "name", ""),
      StrVal("type", "type", "unknown"),
      BoolVal("running", "running", FALSE),
      BoolVal("enabled", "disabled", TRUE),
      StrVal("port-mac-address", "mac-address", ""),
      StrVal("comment", "comment", ""),
      StrVal("last-link-down-time", "last-link-down-time", ""),
      StrVal("last-link-up-time", "last-link-up-time", ""),
      StrVal("link-downs", "link-downs", ""),
      StrVal("tx-queue-drop", "tx-queue-drop", ""),
      StrVal("actual-mtu", "actual-mtu", "")>>

InterfaceVals ==
    <<StrVal("default-name", "default-name", ""),
      ChainVal("name", "default-name"),
      StrVal("type", "type", "unknown"),
      BoolVal("running", "running", FALSE),
      BoolVal("enabled", "disabled", TRUE),
      StrVal("port-mac-address", "mac-address", ""),
      StrVal("comment", "comment", ""),
      StrVal("last-link-down-time", "last-link-down-time", ""),
      StrVal("last-link-up-time", "last-link-up-time", ""),
      StrVal("link-downs", "link-downs", ""),
      StrVal("tx-queue-drop", "tx-queue-drop", ""),
      StrVal("actual-mtu", "actual-mtu", "")>>

InterfaceEnsureVals ==
    <<StrVal("client-ip-address", "client-ip-address", ""),
      StrVal("client-mac-address", "client-mac-address", ""),
      [name |-> "rx-bits-per-second", default |-> 0],
      [name |-> "tx-bits-per-second", default |-> 0]>>

\* get_interface as it would be if the collection were rebuilt from the
\* snapshot instead of updated in place.
get_interface_rebuilt(d, source) ==
    [d EXCEPT !.interface =
        parse_api(<<>>, source, "default-name", InterfaceVals,
                  InterfaceEnsureVals, <<>>, <<>>)]

\* get_interface as it would be if the ensure list were merged like the
\* vals list: a field the raw record lacks gets its default.
get_interface_ensure_overwrites(d, source) ==
    [d EXCEPT !.interface =
        parse_api(d.interface, source, "default-name",
                  InterfaceVals
                  \o <<StrVal("client-ip-address", "client-ip-address", ""),
                       StrVal("client-mac-address", "client-mac-address", ""),
                       StrVal("rx-bits-per-second", "rx-bits-per-second", 0),
                       StrVal("tx-bits-per-second", "tx-bits-per-second", 0)>>,
                  <<>>, <<>>, <<>>)]

get_interface(d, source) ==
    [d EXCEPT !.interface =
        parse_api(d.interface, source, "default-name", InterfaceVals,
                  InterfaceEnsureVals, <<>>, <<>>)]

-----------------------------------------------------------------------------
(* get_interface_client, update_arp, update_bridge_hosts,                  *)
(* get_iface_from_entry                                                    *)

\* Python's None, as get_iface_from_entry returns it when no interface
\* matches (interface keys are never this string).
None == "<None>"

\* The key of the first interface, in dict order, whose name equals the
\* entry's interface field.
RECURSIVE get_iface_from_entry(_, _)
get_iface_from_entry(interface, entry) ==
    IF Len(interface) = 0 THEN None
    ELSE IF Head(interface).v["name"] = entry["interface"] THEN Head(interface).k
    ELSE get_iface_from_entry(Tail(interface), entry)

\* entry["interface"] is read once per interface scanned: the lookup raises
\* KeyError when the entry has no interface field and there is an interface.
iface_lookup_raises(interface, entry) ==
    Len(interface) > 0 /\ "interface" \notin DOMAIN entry

\* arp_slot as it would be if every ARP entry overwrote the slot: the last
\* entry's values are picked.
arp_slot_last_wins(arp_tmp, uid, entry) ==
    LET slot0 == IF Has(arp_tmp, uid) THEN Get(arp_tmp, uid) ELSE EmptyRec
    IN ("interface" :> uid)
       @@ ("mac-address" :> from_entry(entry, "mac-address", ""))
       @@ ("address" :> from_entry(entry, "address", ""))
       @@ slot0

\* Lines 378-388: the scratch slot of uid after one more ARP entry.
arp_slot(arp_tmp, uid, entry) ==
    LET slot0 == IF Has(arp_tmp, uid) THEN Get(arp_tmp, uid) ELSE EmptyRec
        slot1 == ("interface" :> uid) @@ slot0
        slot2 == ("mac-address" :>
                     IF "mac-address" \notin DOMAIN slot1
                     THEN from_entry(entry, "mac-address", "")
                     ELSE "multiple") @@ slot1
    IN ("address" :>
           IF "address" \notin DOMAIN slot2
           THEN from_entry(entry, "address", "")
           ELSE "multiple") @@ slot2

\* The loop of update_arp over the entries not yet processed.  st is
\* [arp_tmp, mac2ip, bridge_used, raised].
RECURSIVE update_arp_loop(_, _, _)
update_arp_loop(interface, entries, st) ==
    IF Len(entries) = 0 THEN st
    ELSE LET entry == Head(entries)
             rest == Tail(entries)
         IN IF "invalid" \notin DOMAIN entry
            THEN [st EXCEPT !.raised = TRUE]
            ELSE IF entry["invalid"]
            THEN update_arp_loop(interface, rest, st)
            ELSE IF "interface" \notin DOMAIN entry
            THEN update_arp_loop(interface, rest, st)
            ELSE IF entry["interface"] = "bridge"
            THEN update_arp_loop(interface, rest,
                    [st EXCEPT !.bridge_used = TRUE,
                               !.mac2ip =
                                  IF "mac-address" \in DOMAIN entry
                                     /\ "address" \in DOMAIN entry
                                  THEN (entry["mac-address"] :> entry["address"]) @@ @
                                  ELSE @])
            ELSE LET uid == get_iface_from_entry(interface, entry)
                 IN IF uid = None
                    THEN update_arp_loop(interface, rest, st)
                    ELSE update_arp_loop(interface, rest,
                            [st EXCEPT !.arp_tmp =
                                Put(@, uid, arp_slot(@, uid, entry))])

update_arp(interface, arp_tmp, source, mac2ip, bridge_used) ==
    update_arp_loop(interface, source,
                    [arp_tmp |-> arp_tmp, mac2ip |-> mac2ip,
                     bridge_used |-> bridge_used, raised |-> FALSE])

\* bridge_slot as it would be without the lookup in the MAC-to-IP table:
\* the address of a bridge host is never resolved.
bridge_slot_no_join(arp_tmp, uid, entry, mac2ip) ==
    LET slot0 == IF Has(arp_tmp, uid) THEN Get(arp_tmp, uid) ELSE EmptyRec
        slot1 == ("interface" :> uid) @@ slot0
    IN IF "mac-address" \in DOMAIN slot1
       THEN ("mac-address" :> "multiple") @@ ("address" :> "multiple") @@ slot1
       ELSE ("mac-address" :> from_entry(entry, "mac-address", ""))
            @@ ("address" :> "") @@ slot1

\* Lines 415-429: the scratch slot of uid after one bridge-host entry.
bridge_slot(arp_tmp, uid, entry, mac2ip) ==
    LET slot0 == IF Has(arp_tmp, uid) THEN Get(arp_tmp, uid) ELSE EmptyRec
        slot1 == ("interface" :> uid) @@ slot0
        mac == from_entry(entry, "mac-address", "")
    IN IF "mac-address" \in DOMAIN slot1
       THEN ("mac-address" :> "multiple") @@ ("address" :> "multiple") @@ slot1
       ELSE ("mac-address" :> mac)
            @@ ("address" :> IF mac \in DOMAIN mac2ip THEN mac2ip[mac] ELSE "")
            @@ slot1

\* The loop of update_bridge_hosts.  st is [arp_tmp, raised].
RECURSIVE update_bridge_hosts_loop(_, _, _, _)
update_bridge_hosts_loop(interface, entries, mac2ip, st) ==
    IF Len(entries) = 0 THEN st
    ELSE LET entry == Head(entries)
             rest == Tail(entries)
         IN IF "local" \notin DOMAIN entry
            THEN [st EXCEPT !.raised = TRUE]
            ELSE IF entry["local"]
            THEN update_bridge_hosts_loop(interface, rest, mac2ip, st)
            ELSE IF iface_lookup_raises(interface, entry)
            THEN [st EXCEPT !.raised = TRUE]
            ELSE LET uid == get_iface_from_entry(interface, entry)
                 IN IF uid = None
                    THEN update_bridge_hosts_loop(interface, rest, mac2ip, st)
                    ELSE update_bridge_hosts_loop(interface, rest, mac2ip,
                            [st EXCEPT !.arp_tmp =
                                Put(@, uid, bridge_slot(@, uid, entry, mac2ip))])

update_bridge_hosts(interface, arp_tmp, source, mac2ip) ==
    update_bridge_hosts_loop(interface, source, mac2ip,
                             [arp_tmp |-> arp_tmp, raised |-> FALSE])

\* Lines 334-343: copy the scratch slots to the interfaces that have one.
RECURSIVE map_arp_to_ifaces(_, _)
map_arp_to_ifaces(interface, arp_tmp) ==
    IF Len(interface) = 0 THEN interface
    ELSE LET e == Head(interface)
             slot == Get(arp_tmp, e.k)
             v == IF ~Has(arp_tmp, e.k) THEN e.v
                  ELSE ("client-ip-address" :> from_entry(slot, "address", ""))
                       @@ ("client-mac-address" :> from_entry(slot, "mac-address", ""))
                       @@ e.v
         IN <<[k |-> e.k, v |-> v]>> \o map_arp_to_ifaces(Tail(interface), arp_tmp)

\* clients_disabled as it would be if the client fields were left alone.
clients_disabled_untouched(interface) == interface

\* Lines 321-323: ARP tracking disabled.
clients_disabled(interface) ==
    [i \in DOMAIN interface |->
        [k |-> interface[i].k,
         v |-> ("client-ip-address" :> "disabled")
               @@ ("client-mac-address" :> "disabled") @@ interface[i].v]]

\* get_interface_client as it would be if the bridge host table were
\* processed in every cycle, whether or not an ARP entry is on the bridge.
get_interface_client_always_bridge(d, option_track_arp, arp_source, host_source) ==
    LET a == update_arp(d.interface, <<>>, arp_source, EmptyRec, FALSE)
        b == update_bridge_hosts(d.interface, a.arp_tmp, host_source, a.mac2ip)
    IN IF ~option_track_arp
       THEN [d |-> [d EXCEPT !.arp_tmp = <<>>,
                             !.interface = clients_disabled(d.interface)],
             raised |-> FALSE, bridge_fetched |-> FALSE]
       ELSE IF a.raised
       THEN [d |-> [d EXCEPT !.arp_tmp = a.arp_tmp],
             raised |-> TRUE, bridge_fetched |-> FALSE]
       ELSE IF b.raised
       THEN [d |-> [d EXCEPT !.arp_tmp = b.arp_tmp],
             raised |-> TRUE, bridge_fetched |-> TRUE]
       ELSE [d |-> [d EXCEPT !.arp_tmp = b.arp_tmp,
                             !.interface = map_arp_to_ifaces(d.interface, b.arp_tmp)],
             raised |-> FALSE, bridge_fetched |-> TRUE]

\* get_interface_client with the ARP table arp_source and the bridge host
\* table host_source as the router returns them.  The result is
\* [d |-> self.data afterwards, raised |-> an exception left the method,
\*  bridge_fetched |-> the bridge host table was requested].
get_interface_client(d, option_track_arp, arp_source, host_source) ==
    LET a == update_arp(d.interface, <<>>, arp_source, EmptyRec, FALSE)
        b == IF a.bridge_used
             THEN update_bridge_hosts(d.interface, a.arp_tmp, host_source, a.mac2ip)
             ELSE [arp_tmp |-> a.arp_tmp, raised |-> FALSE]
    IN IF ~option_track_arp
       THEN [d |-> [d EXCEPT !.arp_tmp = <<>>,
                             !.interface = clients_disabled(d.interface)],
             raised |-> FALSE, bridge_fetched |-> FALSE]
       ELSE IF a.raised
       THEN [d |-> [d EXCEPT !.arp_tmp = a.arp_tmp],
             raised |-> TRUE, bridge_fetched |-> FALSE]
       ELSE IF b.raised
       THEN [d |-> [d EXCEPT !.arp_tmp = b.arp_tmp],
             raised |-> TRUE, bridge_fetched |-> TRUE]
       ELSE [d |-> [d EXCEPT !.arp_tmp = b.arp_tmp,
                             !.interface = map_arp_to_ifaces(d.interface, b.arp_tmp)],
             raised |-> FALSE, bridge_fetched |-> a.bridge_used]

-----------------------------------------------------------------------------
(* get_nat *)

NatVals ==
    <<StrVal(".id", ".id", ""),
      StrVal("protocol", "protocol", "any"),
      StrVal("dst-port", "dst-port", "any"),
      StrVal("in-interface", "in-interface", "any"),
      StrVal("to-addresses", "to-addresses", ""),
      StrVal("to-ports", "to-ports", ""),
      StrVal("comment", "comment", ""),
      BoolVal("enabled", "disabled", TRUE)>>

\* Lines 449-478: the dst-nat rules of source merged into the collection,
\* each with name = protocol ":" dst-port.
nat_parse(nat, source) ==
    parse_api(nat, source, ".id", NatVals, <<>>,
              <<"name", "protocol", ":", "dst-port">>, <<"action", "dst-nat">>)

\* nat_del[x] = 1 on a dict kept as the sequence of its keys.
MarkDel(nat_del, uid) ==
    IF \E i \in DOMAIN nat_del : nat_del[i] = uid THEN nat_del
    ELSE Append(nat_del, uid)

\* nat_find_dups as it would be if only the later id of a collision were
\* marked: the first id of a name survives.
RECURSIVE nat_find_dups_keep_first(_, _, _)
nat_find_dups_keep_first(entries, nat_uniq, nat_del) ==
    IF Len(entries) = 0 THEN nat_del
    ELSE LET uid == Head(entries).k
             tmp_name == Head(entries).v["name"]
         IN IF tmp_name \notin DOMAIN nat_uniq
            THEN nat_find_dups_keep_first(Tail(entries),
                                          (tmp_name :> uid) @@ nat_uniq, nat_del)
            ELSE nat_find_dups_keep_first(Tail(entries), nat_uniq,
                                          MarkDel(nat_del, uid))

\* Lines 480-488: the ids to delete, in the order nat_del receives them.
\* nat_uniq maps a name to the first id that derived it.
RECURSIVE nat_find_dups(_, _, _)
nat_find_dups(entries, nat_uniq, nat_del) ==
    IF Len(entries) = 0 THEN nat_del
    ELSE LET uid == Head(entries).k
             tmp_name == Head(entries).v["name"]
         IN IF tmp_name \notin DOMAIN nat_uniq
            THEN nat_find_dups(Tail(entries), (tmp_name :> uid) @@ nat_uniq, nat_del)
            ELSE nat_find_dups(Tail(entries), nat_uniq,
                               MarkDel(MarkDel(nat_del, uid), nat_uniq[tmp_name]))

\* nat_delete as it would be without the test of nat_removed: every deleted
\* id is logged.
RECURSIVE nat_delete_log_each(_, _)
nat_delete_log_each(nat_del, st) ==
    IF Len(nat_del) = 0 THEN st
    ELSE LET uid == Head(nat_del)
             name == Get(st.nat, uid)["name"]
         IN nat_delete_log_each(Tail(nat_del),
                [nat |-> Del(st.nat, uid),
                 nat_removed |-> st.nat_removed \cup {name},
                 nat_log |-> Append(st.nat_log, name)])

\* Lines 490-496: delete the marked ids; a name not yet in nat_removed is
\* added to it and logged.  st is [nat, nat_removed, nat_log].
RECURSIVE nat_delete(_, _)
nat_delete(nat_del, st) ==
    IF Len(nat_del) = 0 THEN st
    ELSE LET uid == Head(nat_del)
             name == Get(st.nat, uid)["name"]
             first == name \notin st.nat_removed
         IN nat_delete(Tail(nat_del),
                [nat |-> Del(st.nat, uid),
                 nat_removed |-> IF first THEN st.nat_removed \cup {name}
                                 ELSE st.nat_removed,
                 nat_log |-> IF first THEN Append(st.nat_log, name)
                             ELSE st.nat_log])

\* get_nat: the result is [nat, nat_removed, nat_log].
get_nat(nat, removed, logged, source) ==
    LET parsed == nat_parse(nat, source)
    IN nat_delete(nat_find_dups(parsed, EmptyRec, <<>>),
                  [nat |-> parsed, nat_removed |-> removed, nat_log |-> logged])

-----------------------------------------------------------------------------
(* get_dhcp *)

DhcpNetworkVals ==
    <<StrVal("address", "address", ""),
      StrVal("gateway", "gateway", ""),
      StrVal("netmask", "netmask", ""),
      StrVal("dns-server", "dns-server", ""),
      StrVal("domain", "domain", "")>>

DhcpNetworkEnsureVals ==
    <<StrVal("address", "address", ""),
      StrVal("IPv4Network", "IPv4Network", "")>>

DhcpServerVals ==
    <<StrVal("name", "name", ""),
      StrVal("interface", "interface", "")>>

DhcpVals ==
    <<StrVal("mac-address", "mac-address", ""),
      StrVal("address", "address", "unknown"),
      StrVal("host-name", "host-name", "unknown"),
      StrVal("status", "status", "unknown"),
      StrVal("last-seen", "last-seen", "unknown"),
      StrVal("server", "server", "unknown"),
      StrVal("comment", "comment", "")>>

DhcpEnsureVals ==
    <<StrVal("interface", "interface", ""),
      [name |-> "available", default |-> FALSE]>>

\* ipaddress.IPv4Network(address): the parsed network, kept as a value
\* distinct from the address string it was parsed from.
IPv4Network(address) == "IPv4Network(" \o address \o ")"

\* cache_networks as it would be if the parsed network were never computed.
cache_networks_never(network) == network

\* Lines 725-727: the parsed network is computed while the field is "".
cache_networks(network) ==
    [i \in DOMAIN network |->
        [k |-> network[i].k,
         v |-> IF network[i].v["IPv4Network"] = ""
               THEN ("IPv4Network" :> IPv4Network(network[i].v["address"]))
                    @@ network[i].v
               ELSE network[i].v]]

\* Lines 758-760 from lease i on: every lease gets the interface of the
\* server it names; a server that is not in the dhcp-server collection
\* raises KeyError and leaves the leases after it untouched.
\* The result is [dhcp, raised].
RECURSIVE lease_interfaces(_, _, _)
lease_interfaces(dhcp, dhcp_server, i) ==
    IF i > Len(dhcp) THEN [dhcp |-> dhcp, raised |-> FALSE]
    ELSE LET server == dhcp[i].v["server"]
         IN IF ~Has(dhcp_server, server)
            THEN [dhcp |-> dhcp, raised |-> TRUE]
            ELSE lease_interfaces(
                    [dhcp EXCEPT ![i].v =
                        ("interface" :> Get(dhcp_server, server)["interface"]) @@ @],
                    dhcp_server, i + 1)

\* get_dhcp with the three tables as the router returns them.  The result
\* is [d |-> self.data afterwards, raised |-> an exception left the method].
get_dhcp(d, network_source, server_source, lease_source) ==
    LET network == cache_networks(
                       parse_api(d.dhcp_network, network_source, "address",
                                 DhcpNetworkVals, DhcpNetworkEnsureVals, <<>>, <<>>))
        server == parse_api(d.dhcp_server, server_source, "name",
                            DhcpServerVals, <<>>, <<>>, <<>>)
        lease == parse_api(d.dhcp, lease_source, "mac-address",
                           DhcpVals, DhcpEnsureVals, <<>>, <<>>)
        r == lease_interfaces(lease, server, 1)
    IN [d |-> [d EXCEPT !.dhcp_network = network,
                        !.dhcp_server = server,
                        !.dhcp = r.dhcp],
        raised |-> r.raised]

-----------------------------------------------------------------------------
(* get_arp, get_dns, get_script *)

ArpVals ==
    <<StrVal("mac-address", "mac-address", ""),
      StrVal("address", "address", ""),
      StrVal("interface", "interface", "")>>

get_arp(d, source) ==
    [d EXCEPT !.arp = parse_api(d.arp, source, "mac-address", ArpVals,
                                <<>>, <<>>, <<>>)]

DnsVals ==
    <<StrVal("name", "name", ""),
      StrVal("address", "address", "")>>

get_dns(d, source) ==
    [d EXCEPT !.dns = parse_api(d.dns, source, "name", DnsVals,
                                <<>>, <<>>, <<>>)]

ScriptVals ==
    <<StrVal("name", "name", ""),
      StrVal("last-started", "last-started", "unknown"),
      StrVal("run-count", "run-count", "unknown")>>

get_script(d, source) ==
    [d EXCEPT !.script = parse_api(d.script, source, "name", ScriptVals,
                                   <<>>, <<>>, <<>>)]

-----------------------------------------------------------------------------
(* process_host *)

PyBool(b) == [bool |-> b]

\* A datetime, as utcnow() returns it.
PyTime(t) == [time |-> t]

\* add_hosts as it would be if the address, mac-address and interface of a
\* host that exists were copied from its record again.
RECURSIVE add_hosts_refresh(_, _, _)
add_hosts_refresh(host, coll, source) ==
    IF Len(coll) = 0 THEN host
    ELSE LET uid == Head(coll).k
             vals == Head(coll).v
             copied == ("address" :> vals["address"])
                       @@ ("mac-address" :> vals["mac-address"])
                       @@ ("interface" :> vals["interface"])
         IN add_hosts_refresh(
                IF Has(host, uid) THEN Put(host, uid, copied @@ Get(host, uid))
                ELSE Put(host, uid, ("source" :> source) @@ copied),
                Tail(coll), source)

\* Lines 768-791: every key of coll (the DHCP leases, then the ARP entries)
\* that is not yet a host becomes one, with the source given and the
\* address, mac-address and interface of its record.
RECURSIVE add_hosts(_, _, _)
add_hosts(host, coll, source) ==
    IF Len(coll) = 0 THEN host
    ELSE LET uid == Head(coll).k
             vals == Head(coll).v
             new == ("source" :> source) @@ ("address" :> vals["address"])
                    @@ ("mac-address" :> vals["mac-address"])
                    @@ ("interface" :> vals["interface"])
         IN add_hosts(IF Has(host, uid) THEN host ELSE Put(host, uid, new),
                      Tail(coll), source)

\* Lines 796-801: zip() pairs the six keys with the five defaults, so
\* address, mac-address, interface and hostname default to "unknown",
\* last-seen to False, and available has no default.
HostDefaults ==
    <<<<"address", "unknown">>, <<"mac-address", "unknown">>,
      <<"interface", "unknown">>, <<"hostname", "unknown">>,
      <<"last-seen", PyBool(FALSE)>>>>

RECURSIVE host_backfill(_, _)
host_backfill(h, defaults) ==
    IF Len(defaults) = 0 THEN h
    ELSE host_backfill(IF Head(defaults)[1] \in DOMAIN h THEN h
                       ELSE (Head(defaults)[1] :> Head(defaults)[2]) @@ h,
                       Tail(defaults))

\* Lines 806-809: the first label of the name of the first static DNS
\* record, in dict order, with the address given; "unknown" when there is
\* none.  A DNS name is the sequence of its dot-separated labels.
RECURSIVE dns_label(_, _)
dns_label(dns, address) ==
    IF Len(dns) = 0 THEN "unknown"
    ELSE IF Head(dns).v["address"] = address THEN Head(dns).v["name"][1]
    ELSE dns_label(Tail(dns), address)

\* Lines 804-820: the hostname is resolved only while it is "unknown".
host_resolve_name(h, uid, d) ==
    IF h["hostname"] # "unknown" THEN h
    ELSE LET by_dns == IF h["address"] # "unknown"
                       THEN dns_label(d.dns, h["address"]) ELSE "unknown"
         IN ("hostname" :>
                IF by_dns # "unknown" THEN by_dns
                ELSE IF Has(d.dhcp, uid) /\ Get(d.dhcp, uid)["comment"] # ""
                THEN Get(d.dhcp, uid)["comment"]
                ELSE IF Has(d.dhcp, uid)
                        /\ Get(d.dhcp, uid)["host-name"] # "unknown"
                THEN Get(d.dhcp, uid)["host-name"]
                ELSE uid) @@ h

\* host_process as it would be if every host were probed, whatever its
\* address and interface.
host_process_probe_all(h0, uid, d, outcome, time) ==
    LET h2 == host_resolve_name(host_backfill(h0, HostDefaults), uid, d)
        call == <<[uid |-> uid, address |-> h2["address"],
                   interface |-> h2["interface"], result |-> outcome]>>
        h3 == IF outcome # "raise"
              THEN ("available" :> (outcome = "True")) @@ h2 ELSE h2
    IN IF outcome = "raise"
       THEN [h |-> h2, probe |-> call, raised |-> TRUE]
       ELSE [h |-> IF h3["available"]
                   THEN ("last-seen" :> PyTime(time)) @@ h3 ELSE h3,
             probe |-> call, raised |-> FALSE]

\* Lines 794-829 for one host.  outcome is what api.arp_ping does when it
\* is called: it returns True ("True") or False ("False"), or it raises.
\* The result is [h |-> the host record, probe |-> the arp_ping calls made,
\* raised |-> an exception left process_host].
host_process(h0, uid, d, outcome, time) ==
    LET h2 == host_resolve_name(host_backfill(h0, HostDefaults), uid, d)
        probed == h2["address"] # "unknown" /\ h2["interface"] # "unknown"
        call == IF probed
                THEN <<[uid |-> uid, address |-> h2["address"],
                        interface |-> h2["interface"], result |-> outcome]>>
                ELSE <<>>
        h3 == IF probed /\ outcome # "raise"
              THEN ("available" :> (outcome = "True")) @@ h2 ELSE h2
    IN IF probed /\ outcome = "raise"
       THEN [h |-> h2, probe |-> call, raised |-> TRUE]
       ELSE IF "available" \notin DOMAIN h3
       THEN [h |-> h3, probe |-> call, raised |-> TRUE]
       ELSE [h |-> IF h3["available"]
                   THEN ("last-seen" :> PyTime(time)) @@ h3 ELSE h3,
             probe |-> call, raised |-> FALSE]

\* The loop of lines 794-829 from host i on.  st is [host, probes, raised].
RECURSIVE host_loop(_, _, _, _, _)
host_loop(st, i, d, ping, time) ==
    IF i > Len(st.host) THEN st
    ELSE LET uid == st.host[i].k
             r == host_process(st.host[i].v, uid, d, ping[uid], time)
             next == [host |-> [st.host EXCEPT ![i].v = r.h],
                      probes |-> st.probes \o r.probe,
                      raised |-> r.raised]
         IN IF r.raised THEN next ELSE host_loop(next, i + 1, d, ping, time)

\* hosts_added as it would be if the ARP entries were processed before the
\* DHCP leases.
hosts_added_arp_first(d) ==
    add_hosts(add_hosts(d.host, d.arp, "arp"), d.dhcp, "dhcp")

\* The hosts after lines 768-791.
hosts_added(d) == add_hosts(add_hosts(d.host, d.dhcp, "dhcp"), d.arp, "arp")

\* process_host when api.arp_ping answers ping[uid] for host uid and
\* utcnow() returns time.  The result is [d |-> self.data afterwards,
\* probes |-> the arp_ping calls made, raised |-> an exception left the
\* method].
process_host(d, ping, time) ==
    LET r == host_loop([host |-> hosts_added(d), probes |-> <<>>,
                        raised |-> FALSE], 1, d, ping, time)
    IN [d |-> [d EXCEPT !.host = r.host], probes |-> r.probes,
        raised |-> r.raised]

-----------------------------------------------------------------------------
(* get_system_routerboard, get_system_resource *)

RouterboardVals ==
    <<BoolVal("routerboard", "routerboard", FALSE),
      StrVal("model", "model", "unknown"),
      StrVal("serial-number", "serial-number", "unknown"),
      StrVal("firmware", "firmware", "unknown")>>

get_system_routerboard(d, source) ==
    [d EXCEPT !.routerboard = parse_api_single(d.routerboard, source, RouterboardVals)]

ResourceVals ==
    <<StrVal("platform", "platform", "unknown"),
      StrVal("board-name", "board-name", "unknown"),
      StrVal("version", "version", "unknown"),
      StrVal("uptime", "uptime", "unknown"),
      StrVal("cpu-load", "cpu-load", "unknown"),
      StrVal("free-memory", "free-memory", 0),
      StrVal("total-memory", "total-memory", 0),
      StrVal("free-hdd-space", "free-hdd-space", 0),
      StrVal("total-hdd-space", "total-hdd-space", 0)>>

\* Python's round() of the quotient n / d (d > 0): to the nearest integer,
\* a tie to the even one.
RoundDiv(n, d) ==
    LET q == n \div d
        r == n - q * d
    IN IF 2 * r < d THEN q
       ELSE IF 2 * r > d THEN q + 1
       ELSE IF q % 2 = 0 THEN q ELSE q + 1

\* A field that holds a number in one record and a string in another
\* carries its values tagged with their Python type.
PyInt(n) == [int |-> n]

PyStr(s) == [str |-> s]

\* Lines 536-545 compute in doubles: the quotient (total - free) / total is
\* rounded to a double, its product with 100 is rounded again, and round()
\* is applied to that.  Where the exact percentage is k + 1/2, the double
\* product is greater than k + 1/2 for the k of FloatAboveTie, smaller for
\* the k of FloatBelowTie and equal to it for every other k of 0..99; where
\* the exact percentage is no such half, the double lies on the same side
\* of every half as the exact value (totals below 10^13).
FloatAboveTie == {3, 27, 54, 55}

FloatBelowTie == {14, 28, 56, 57}

\* round(used / total * 100) of lines 536-545, for 0 <= used <= total.
round_percent(used, total) ==
    LET k == (used * 100) \div total
        tie == 2 * (used * 100 - k * total) = total
    IN IF tie /\ k \in FloatAboveTie THEN k + 1
       ELSE IF tie /\ k \in FloatBelowTie THEN k
       ELSE RoundDiv(used * 100, total)

\* usage as it would be if the percentage were truncated.
usage_truncated(total, free) ==
    IF total > 0 THEN PyInt(((total - free) * 100) \div total)
    ELSE PyStr("unknown")

\* Lines 535-561: round((total - free) / total * 100), or "unknown".
usage(total, free) ==
    IF total > 0 THEN PyInt(round_percent(total - free, total))
    ELSE PyStr("unknown")

get_system_resource(d, source) ==
    LET res == parse_api_single(d.resource, source, ResourceVals)
    IN [d EXCEPT !.resource =
            ("memory-usage" :> usage(res["total-memory"], res["free-memory"]))
            @@ ("hdd-usage" :> usage(res["total-hdd-space"], res["free-hdd-space"]))
            @@ res]

-----------------------------------------------------------------------------
(* _get_traffic_type_and_div, get_interface_traffic, get_queue             *)

\* Lines 85-100.  The result is [traffic_type |-> the unit label, div |->
\* the integer D whose reciprocal is traffic_div]: 0.001 is 1 / 1000,
\* 0.000001 is 1 / 10^6, 0.125 is 1 / 8, 0.000125 is 1 / 8000 and
\* 0.000000125 is 1 / (8 * 10^6).
get_traffic_type_and_div(option) ==
    CASE option = "Kbps" -> [traffic_type |-> "Kbps", div |-> 1000]
      [] option = "Mbps" -> [traffic_type |-> "Mbps", div |-> 1000000]
      [] option = "B/s" -> [traffic_type |-> "B/s", div |-> 8]
      [] option = "KB/s" -> [traffic_type |-> "KB/s", div |-> 8000]
      [] option = "MB/s" -> [traffic_type |-> "MB/s", div |-> 8000000]
      [] OTHER -> [traffic_type |-> "bps", div |-> 1]

\* scaled as it would be if the product were truncated.
scaled_truncated(x, div) == x \div div

\* round(x * traffic_div) for x >= 0: the double product x * traffic_div
\* equals the exact quotient x / D wherever that is an integer plus one half
\* (quotients below 200), and lies on its side of every half elsewhere, so
\* that round() gives the nearest integer, a half going to the even one.
scaled(x, div) == RoundDiv(x, div)

\* The uid of the first record of coll whose field has this value, or None.
RECURSIVE uid_by_field(_, _, _)
uid_by_field(coll, field, value) ==
    IF Len(coll) = 0 THEN None
    ELSE IF field \in DOMAIN Head(coll).v /\ Head(coll).v[field] = value
    THEN Head(coll).k
    ELSE uid_by_field(Tail(coll), field, value)

\* parse_api with key_search: every record of source is overlaid on the
\* entry of data whose key_search field has the record's value; a record
\* without that field, or matching no entry, is skipped; entries that
\* source does not name are retained.
RECURSIVE parse_api_search(_, _, _, _)
parse_api_search(coll, source, key_search, vals) ==
    IF Len(source) = 0 THEN coll
    ELSE LET entry == Head(source)
             uid == IF key_search \in DOMAIN entry
                    THEN uid_by_field(coll, key_search, entry[key_search])
                    ELSE None
         IN IF uid = None
            THEN parse_api_search(coll, Tail(source), key_search, vals)
            ELSE parse_api_search(
                     Put(coll, uid, fill_vals(Get(coll, uid), entry, vals)),
                     Tail(source), key_search, vals)

TrafficVals ==
    <<[name |-> "rx-bits-per-second", source |-> "rx-bits-per-second",
       type |-> "str", default |-> 0, default_val |-> "", reverse |-> FALSE],
      [name |-> "tx-bits-per-second", source |-> "tx-bits-per-second",
       type |-> "str", default |-> 0, default_val |-> "", reverse |-> FALSE]>>

\* Lines 299-310 for one interface record.
traffic_scaled(rec, u) ==
    ("rx-bits-per-second-attr" :> u.traffic_type)
    @@ ("tx-bits-per-second-attr" :> u.traffic_type)
    @@ ("rx-bits-per-second" :> scaled(rec["rx-bits-per-second"], u.div))
    @@ ("tx-bits-per-second" :> scaled(rec["tx-bits-per-second"], u.div))
    @@ rec

\* get_interface_traffic with the records api.get_traffic returns and the
\* configured unit.
get_interface_traffic(d, source, option) ==
    LET merged == parse_api_search(d.interface, source, "name", TrafficVals)
        u == get_traffic_type_and_div(option)
    IN [d EXCEPT !.interface =
           [i \in DOMAIN merged |->
               [k |-> merged[i].k, v |-> traffic_scaled(merged[i].v, u)]]]

\* A rate specification "a/b" is the sequence of its slash-delimited parts,
\* each numeral given by its value; burst-time keeps its parts as text.
QueueVals ==
    <<StrVal(".id", ".id", ""),
      StrVal("name", "name", "unknown"),
      StrVal("target", "target", "unknown"),
      StrVal("max-limit", "max-limit", <<0, 0>>),
      StrVal("limit-at", "limit-at", <<0, 0>>),
      StrVal("burst-limit", "burst-limit", <<0, 0>>),
      StrVal("burst-threshold", "burst-threshold", <<0, 0>>),
      StrVal("burst-time", "burst-time", <<"0s", "0s">>),
      StrVal("packet-marks", "packet-marks", "none"),
      StrVal("parent", "parent", "none"),
      StrVal("comment", "comment", ""),
      BoolVal("enabled", "disabled", TRUE)>>

\* The rate fields in the order lines 638-664 derive them.
QueueRateFields == <<"max-limit", "limit-at", "burst-limit", "burst-threshold">>

\* The text f"{n} {traffic_type}".
Rendered(n, unit) == [value |-> n, unit |-> unit]

\* Lines 638-664 for one queue: the upload and download fields of the rate
\* fields not yet derived.  Unpacking a split that has not exactly two
\* parts raises ValueError.  The result is [rec, raised].
RECURSIVE queue_rates(_, _, _)
queue_rates(rec, fields, u) ==
    IF Len(fields) = 0 THEN [rec |-> rec, raised |-> FALSE]
    ELSE LET f == Head(fields)
             parts == rec[f]
         IN IF Len(parts) # 2 THEN [rec |-> rec, raised |-> TRUE]
            ELSE queue_rates(
                    (("upload-" \o f) :>
                        Rendered(scaled(parts[1], u.div), u.traffic_type))
                    @@ (("download-" \o f) :>
                        Rendered(scaled(parts[2], u.div), u.traffic_type))
                    @@ rec,
                    Tail(fields), u)

\* Lines 638-669 for one queue.
queue_derived(rec, u) ==
    LET r == queue_rates(rec, QueueRateFields, u)
        t == r.rec["burst-time"]
    IN IF r.raised THEN r
       ELSE IF Len(t) # 2 THEN [rec |-> r.rec, raised |-> TRUE]
       ELSE [rec |-> ("upload-burst-time" :> t[1])
                     @@ ("download-burst-time" :> t[2]) @@ r.rec,
             raised |-> FALSE]

\* The loop of lines 637-669 from queue i on; an exception ends it.
RECURSIVE queue_loop(_, _, _)
queue_loop(queue, i, u) ==
    IF i > Len(queue) THEN [queue |-> queue, raised |-> FALSE]
    ELSE LET r == queue_derived(queue[i].v, u)
             q == [queue EXCEPT ![i] = [k |-> queue[i].k, v |-> r.rec]]
         IN IF r.raised THEN [queue |-> q, raised |-> TRUE]
            ELSE queue_loop(q, i + 1, u)

\* get_queue with the records of /queue/simple and the configured unit.
\* The result is [d |-> self.data afterwards, raised |-> an exception left
\* the method].
get_queue(d, source, option) ==
    LET parsed == parse_api(d.queue, source, "name", QueueVals, <<>>, <<>>, <<>>)
        r == queue_loop(parsed, 1, get_traffic_type_and_div(option))
    IN [d |-> [d EXCEPT !.queue = r.queue], raised |-> r.raised]

-----------------------------------------------------------------------------
(* switch.py: update_items and the switch entities *)

\* SWITCH_TYPES[kind].data_path: the collection the entities of a switch
\* type are made from.
data_path(d, kind) == IF kind = "interface" THEN d.interface ELSE d.nat

\* SWITCH_TYPES[kind].data_reference: the field whose value names an item.
data_reference(kind) == IF kind = "interface" THEN "default-name" ELSE "name"

\* SWITCH_TYPES[kind].data_switch_path and data_switch_parameter.
data_switch_path(kind) ==
    IF kind = "interface" THEN "/interface" ELSE "/ip/firewall/nat"

data_switch_parameter(kind) == "disabled"

\* Line 146: f"{inst}-{switch}-{reference value}", for the one instance.
item_id(kind, rec) == <<kind, rec[data_reference(kind)]>>

\* The loop of lines 144-158 over the records of one switch type as it
\* would be without the membership test of line 148.
RECURSIVE update_items_readd(_, _, _, _, _)
update_items_readd(coll, kind, i, off, st) ==
    IF i > Len(coll) THEN st
    ELSE LET id == item_id(kind, coll[i].v)
             entity == [kind |-> kind, uid |-> coll[i].k, id |-> id]
         IN update_items_readd(coll, kind, i + 1, off,
               [st EXCEPT !.switches = Put(@, id, entity),
                          !.new_switches = Append(@, entity)])

\* The loop of lines 144-158 over the records of one switch type, from
\* record i on.  off is the set of item ids whose entity is disabled in
\* the entity registry; st is [switches, new_switches, scheduled].
RECURSIVE update_items_loop(_, _, _, _, _)
update_items_loop(coll, kind, i, off, st) ==
    IF i > Len(coll) THEN st
    ELSE LET id == item_id(kind, coll[i].v)
             entity == [kind |-> kind, uid |-> coll[i].k, id |-> id]
         IN IF Has(st.switches, id)
            THEN update_items_loop(coll, kind, i + 1, off,
                    IF id \in off THEN st
                    ELSE [st EXCEPT !.scheduled = @ \cup {id}])
            ELSE update_items_loop(coll, kind, i + 1, off,
                    [st EXCEPT !.switches = Put(@, id, entity),
                               !.new_switches = Append(@, entity)])

\* Lines 127-160: update_items.  The result is [switches, added].
update_items(d, sw, off) ==
    LET st0 == [switches |-> sw, new_switches |-> <<>>, scheduled |-> {}]
        st1 == update_items_loop(data_path(d, "interface"), "interface", 1, off, st0)
        st2 == update_items_loop(data_path(d, "nat"), "nat", 1, off, st1)
    IN [switches |-> st2.switches,
        added |-> [calls |-> IF st2.new_switches # <<>>
                             THEN <<st2.new_switches>> ELSE <<>>,
                   scheduled |-> st2.scheduled, off |-> off]]

\* One api.update call as set_value makes it.
Mutate(path, param, value, mod_param, mod_value) ==
    [path |-> path, param |-> param, value |-> value,
     mod_param |-> mod_param, mod_value |-> mod_value]

\* The mod_value of the base switch as it would be with on and off swapped.
switch_mod_value_swapped(on) == IF on THEN "True" ELSE "False"

\* Lines 330 and 339: turning on clears the parameter, turning off sets it.
switch_mod_value(on) == IF on THEN "False" ELSE "True"

\* Lines 324-340: MikrotikControllerSwitch.async_turn_on (on) and
\* async_turn_off of an entity of type kind whose record is rec.  The
\* result is [args |-> the api.update calls, reply |-> what the handler
\* raised or returned before its await, cycle |-> an update cycle is
\* requested].
switch_turn(kind, rec, on) ==
    [args |-> <<Mutate(data_switch_path(kind), data_reference(kind),
                       rec[data_reference(kind)],
                       data_switch_parameter(kind), switch_mod_value(on))>>,
     reply |-> "None", cycle |-> TRUE]

\* "-" in mac: the hardware address is written with dashes.
HasDash(mac) == mac = "00-0C-42-00-00-01"

\* Lines 417-453: MikrotikControllerPortSwitch.async_turn_on (on) and
\* async_turn_off.  self._data["about"] is read by subscript first.
port_turn(rec, on) ==
    IF "about" \notin DOMAIN rec
    THEN [args |-> <<>>, reply |-> "KeyError", cycle |-> FALSE]
    ELSE IF rec["about"] = "managed by CAPsMAN"
    THEN [args |-> <<>>, reply |-> "managed by CAPsMAN", cycle |-> FALSE]
    ELSE LET param == IF HasDash(rec["port-mac-address"]) THEN "name"
                      ELSE data_reference("interface")
             value == rec[data_reference("interface")]
             first == Mutate(data_switch_path("interface"), param, value,
                             data_switch_parameter("interface"),
                             switch_mod_value(on))
             poe == "poe-out" \in DOMAIN rec
                    /\ rec["poe-out"] = (IF on THEN "off" ELSE "auto-on")
         IN [args |-> IF poe
                      THEN <<first,
                             Mutate("/interface/ethernet", param, value, "poe-out",
                                    IF on THEN "auto-on" ELSE "off")>>
                      ELSE <<first>>,
             reply |-> "None", cycle |-> TRUE]

\* Lines 470-502: MikrotikControllerNATSwitch.async_turn_on (on) and
\* async_turn_off.  The loop reads ["uniq-id"] of every record of the NAT
\* collection by subscript; value stays None when no record matches.
nat_turn(nat, rec, on) ==
    IF \E i \in DOMAIN nat : "uniq-id" \notin DOMAIN nat[i].v
    THEN [args |-> <<>>, reply |-> "KeyError", cycle |-> FALSE]
    ELSE IF \E f \in {"chain", "action", "protocol", "in-interface", "dst-port",
                      "out-interface", "to-addresses", "to-ports"} :
               Len(nat) > 0 /\ f \notin DOMAIN rec
    THEN [args |-> <<>>, reply |-> "KeyError", cycle |-> FALSE]
    ELSE LET uniq == <<rec["chain"], rec["action"], rec["protocol"],
                       rec["in-interface"], rec["dst-port"],
                       rec["out-interface"], rec["to-addresses"],
                       rec["to-ports"]>>
             hits == {i \in DOMAIN nat : nat[i].v["uniq-id"] = uniq}
             value == IF hits = {} THEN None
                      ELSE nat[CHOOSE i \in hits : \A j \in hits : j <= i].v[".id"]
         IN [args |-> <<Mutate(data_switch_path("nat"), ".id", value,
                               data_switch_parameter("nat"),
                               switch_mod_value(on))>>,
             reply |-> "None", cycle |-> TRUE]

-----------------------------------------------------------------------------
(* The poll orchestrator *)

\* "timer" runs force_update (the scan-interval timer), "switch" runs
\* async_update as a switch entity requests it, "hwinfo" runs hwinfo_update
\* and "fwtimer" runs force_fwupdate_check (the hourly timer).
UpdateTasks == {"timer", "switch"}

Tasks == UpdateTasks \cup {"hwinfo", "fwtimer"}

\* SubFetches as it would be if the host merge were scheduled before the
\* DHCP fetch.
SubFetches_host_merge_early ==
    <<"get_interface", "get_arp", "get_dns", "process_host", "get_dhcp",
      "get_interface_traffic", "get_interface_client", "get_nat",
      "get_system_resource", "get_script", "get_queue">>

\* The executor jobs of async_update, lines 197-207, in order.
SubFetches ==
    <<"get_interface", "get_arp", "get_dns", "get_dhcp", "process_host",
      "get_interface_traffic", "get_interface_client", "get_nat",
      "get_system_resource", "get_script", "get_queue">>

\* The position after sub-fetch name: the next sub-fetch, or the dispatch
\* of line 209.
After(name) ==
    LET i == CHOOSE j \in DOMAIN SubFetches : SubFetches[j] = name
    IN IF i = Len(SubFetches) THEN "dispatch" ELSE SubFetches[i + 1]

Paths ==
    {"/interface", "/ip/arp", "/interface/bridge/host", "/ip/firewall/nat",
     "/system/package/update", "/system/routerboard", "/system/resource",
     "/system/script", "/ip/dns/static", "/ip/dhcp-server/network",
     "/ip/dhcp-server", "/ip/dhcp-server/lease", "/queue/simple",
     "/interface/monitor-traffic"}

Rec2(a, x, b, y) == (a :> x) @@ (b :> y)

Rec3(a, x, b, y, c, z) == (a :> x) @@ (b :> y) @@ (c :> z)

\* What the router answers on each path while the orchestrator is
\* explored: an API call that fails yields no records.
Router(path) ==
    CASE path = "/interface" ->
            {<<Rec2("default-name", "ether1", "name", "ether1")>>}
      [] path = "/ip/arp" ->
            {<<[i \in {"mac-address", "address", "interface", "invalid"} |->
                  CASE i = "mac-address" -> "M1" [] i = "address" -> "A1"
                    [] i = "interface" -> "ether1" [] OTHER -> FALSE]>>}
      [] path = "/interface/bridge/host" -> {<<>>}
      [] path = "/ip/firewall/nat" ->
            {<<[i \in {".id", "action", "protocol", "dst-port"} |->
                  CASE i = ".id" -> "*1" [] i = "action" -> "dst-nat"
                    [] i = "protocol" -> "tcp" [] OTHER -> "80"]>>}
      [] path = "/system/package/update" ->
            {<<>>, <<("status" :> "New version is available")>>}
      [] path = "/system/routerboard" -> {<<("model" :> "RB750")>>}
      [] path = "/system/resource" ->
            {<<Rec2("total-memory", 1000, "free-memory", 250)>>}
      [] path = "/system/script" -> {<<("name" :> "backup")>>}
      [] path = "/ip/dns/static" -> {<<Rec2("name", <<"nas", "lan">>, "address", "A1")>>}
      [] path = "/ip/dhcp-server/network" -> {<<("address" :> "10.0.0.0/24")>>}
      [] path = "/ip/dhcp-server" ->
            {<<>>, <<Rec2("name", "dhcp1", "interface", "ether1")>>}
      [] path = "/queue/simple" ->
            {<<Rec2("name", "q1", "max-limit", <<1000000, 2000000>>)>>}
      [] path = "/interface/monitor-traffic" ->
            {<<Rec3("name", "ether1", "rx-bits-per-second", 1000,
                    "tx-bits-per-second", 2000)>>}
      [] path = "/ip/dhcp-server/lease" ->
            {<<>>,
             <<Rec3("mac-address", "M1", "address", "A1", "server", "dhcp1")>>,
             <<Rec3("mac-address", "M2", "address", "A2", "server", "all")>>}

Fetched(path, records) == src' = [src EXCEPT ![path] = records]

Goto(t, position) == pc' = [pc EXCEPT ![t] = position]

\* self.lock is held by the task that acquired it and has not released it.
Holds(t) == pc[t] \notin {"idle", "acquire", "skipped", "done", "failed"}
            /\ t # "fwtimer"

\* The timers fire, a switch is toggled, the integration is set up: a task
\* that is not running is started.
Trigger(t) ==
    /\ pc[t] \in {"idle", "skipped", "done", "failed"}
    /\ pc' = [pc EXCEPT ![t] = IF t = "fwtimer" THEN "get_firmware_update"
                                ELSE "acquire"]
    /\ sent' = [sent EXCEPT ![t] = 0]
    /\ UNCHANGED <<lock, data, nat_removed, nat_log, src, track_arp, now, probes, traffic_type, remote, switches, added>>

\* Acquire as it would be if the lock were taken without waiting for it to
\* be free.
AcquireUnguarded(t) ==
    /\ pc[t] = "acquire"
    /\ lock' = TRUE
    /\ pc' = [pc EXCEPT ![t] =
                IF t = "hwinfo" THEN "get_system_routerboard"
                ELSE IF "available" \notin DOMAIN data.fw_update
                THEN "get_firmware_update"
                ELSE "get_interface"]
    /\ UNCHANGED <<sent, data, nat_removed, nat_log, src, track_arp, now, probes, traffic_type, remote, switches, added>>

\* Lines 189-195 and 167-170: wait_for(self.lock.acquire()) returns.
Acquire(t) ==
    /\ pc[t] = "acquire"
    /\ ~lock
    /\ lock' = TRUE
    /\ pc' = [pc EXCEPT ![t] =
                IF t = "hwinfo" THEN "get_system_routerboard"
                ELSE IF "available" \notin DOMAIN data.fw_update
                THEN "get_firmware_update"
                ELSE "get_interface"]
    /\ UNCHANGED <<sent, data, nat_removed, nat_log, src, track_arp, now, probes, traffic_type, remote, switches, added>>

\* AcquireTimeout as it would be if the timeout path released the lock.
AcquireTimeoutReleases(t) ==
    /\ pc[t] = "acquire"
    /\ lock
    /\ lock' = FALSE
    /\ Goto(t, "skipped")
    /\ UNCHANGED <<sent, data, nat_removed, nat_log, src, track_arp, now, probes, traffic_type, remote, switches, added>>

\* AcquireTimeout as it would be if the wait for the lock had no timeout:
\* the task keeps waiting.
AcquireTimeoutNever(t) ==
    /\ pc[t] = "acquire"
    /\ lock
    /\ UNCHANGED vars

\* Lines 191-192 and 169-170: the wait for the lock times out.
AcquireTimeout(t) ==
    /\ pc[t] = "acquire"
    /\ lock
    /\ Goto(t, "skipped")
    /\ UNCHANGED <<lock, sent, data, nat_removed, nat_log, src, track_arp, now, probes, traffic_type, remote, switches, added>>

\* Line 181: the executor job of async_fwupdate_check.
FwUpdateJob(t) ==
    /\ pc[t] = "get_firmware_update"
    /\ \E s \in Router("/system/package/update") :
          /\ data' = get_firmware_update(data, s)
          /\ Fetched("/system/package/update", s)
    /\ Goto(t, "fw_dispatch")
    /\ UNCHANGED <<lock, sent, nat_removed, nat_log, track_arp, now, probes, traffic_type, remote, switches, added>>

\* Line 182: async_fwupdate_check dispatches signal_update, and returns to
\* async_update (line 197) or ends the hourly check.
FwUpdateDispatch(t) ==
    /\ pc[t] = "fw_dispatch"
    /\ sent' = [sent EXCEPT ![t] = @ + 1]
    /\ Goto(t, IF t = "fwtimer" THEN "done" ELSE "get_interface")
    /\ UNCHANGED <<lock, data, nat_removed, nat_log, src, track_arp, now, probes, traffic_type, remote, switches, added>>

\* The API paths sub-fetch name reads.
PathsOf(name) ==
    CASE name = "get_interface" -> {"/interface"}
      [] name = "get_arp" -> {"/ip/arp"}
      [] name = "get_dns" -> {"/ip/dns/static"}
      [] name = "get_dhcp" -> {"/ip/dhcp-server/network", "/ip/dhcp-server",
                               "/ip/dhcp-server/lease"}
      [] name = "get_interface_client" -> {"/ip/arp", "/interface/bridge/host"}
      [] name = "get_nat" -> {"/ip/firewall/nat"}
      [] name = "get_system_resource" -> {"/system/resource"}
      [] name = "get_script" -> {"/system/script"}
      [] name = "get_interface_traffic" -> {"/interface/monitor-traffic"}
      [] name = "get_queue" -> {"/queue/simple"}
      [] OTHER -> {}

\* A sub-fetch of async_update that ends in state d; an exception that
\* leaves it ends async_update there, with the lock still held.
SubFetchEnds(t, name, d, raised) ==
    /\ data' = d
    /\ Goto(t, IF raised THEN "failed" ELSE After(name))
    /\ UNCHANGED <<lock, sent, track_arp, now, probes, traffic_type, remote, switches, added>>

GetInterfaceJob(t) ==
    /\ t \in UpdateTasks /\ pc[t] = "get_interface"
    /\ \E s \in Router("/interface") :
          /\ SubFetchEnds(t, "get_interface", get_interface(data, s), FALSE)
          /\ Fetched("/interface", s)
    /\ UNCHANGED <<nat_removed, nat_log>>

GetArpJob(t) ==
    /\ t \in UpdateTasks /\ pc[t] = "get_arp"
    /\ \E s \in Router("/ip/arp") :
          /\ SubFetchEnds(t, "get_arp", get_arp(data, s), FALSE)
          /\ Fetched("/ip/arp", s)
    /\ UNCHANGED <<nat_removed, nat_log>>

GetDnsJob(t) ==
    /\ t \in UpdateTasks /\ pc[t] = "get_dns"
    /\ \E s \in Router("/ip/dns/static") :
          /\ SubFetchEnds(t, "get_dns", get_dns(data, s), FALSE)
          /\ Fetched("/ip/dns/static", s)
    /\ UNCHANGED <<nat_removed, nat_log>>

GetDhcpJob(t) ==
    /\ t \in UpdateTasks /\ pc[t] = "get_dhcp"
    /\ \E n \in Router("/ip/dhcp-server/network"),
          s \in Router("/ip/dhcp-server"),
          l \in Router("/ip/dhcp-server/lease") :
          LET r == get_dhcp(data, n, s, l)
          IN /\ SubFetchEnds(t, "get_dhcp", r.d, r.raised)
             /\ src' = [src EXCEPT !["/ip/dhcp-server/network"] = n,
                                   !["/ip/dhcp-server"] = s,
                                   !["/ip/dhcp-server/lease"] = l]
    /\ UNCHANGED <<nat_removed, nat_log>>

GetInterfaceClientJob(t) ==
    /\ t \in UpdateTasks /\ pc[t] = "get_interface_client"
    /\ \E a \in Router("/ip/arp"), h \in Router("/interface/bridge/host") :
          LET r == get_interface_client(data, track_arp, a, h)
          IN /\ SubFetchEnds(t, "get_interface_client", r.d, r.raised)
             /\ src' = [src EXCEPT
                          !["/ip/arp"] = IF track_arp THEN a ELSE @,
                          !["/interface/bridge/host"] =
                              IF r.bridge_fetched THEN h ELSE @]
    /\ UNCHANGED <<nat_removed, nat_log>>

GetNatJob(t) ==
    /\ t \in UpdateTasks /\ pc[t] = "get_nat"
    /\ \E s \in Router("/ip/firewall/nat") :
          LET r == get_nat(data.nat, nat_removed, nat_log, s)
          IN /\ SubFetchEnds(t, "get_nat", [data EXCEPT !.nat = r.nat], FALSE)
             /\ nat_removed' = r.nat_removed
             /\ nat_log' = r.nat_log
             /\ Fetched("/ip/firewall/nat", s)

GetSystemResourceJob(t) ==
    /\ t \in UpdateTasks /\ pc[t] = "get_system_resource"
    /\ \E s \in Router("/system/resource") :
          /\ SubFetchEnds(t, "get_system_resource", get_system_resource(data, s), FALSE)
          /\ Fetched("/system/resource", s)
    /\ UNCHANGED <<nat_removed, nat_log>>

GetScriptJob(t) ==
    /\ t \in UpdateTasks /\ pc[t] = "get_script"
    /\ \E s \in Router("/system/script") :
          /\ SubFetchEnds(t, "get_script", get_script(data, s), FALSE)
          /\ Fetched("/system/script", s)
    /\ UNCHANGED <<nat_removed, nat_log>>

\* Lines 209-211: the dispatch of signal_update and the release of the
\* lock, with no await between them.
DispatchAndRelease(t) ==
    /\ t \in UpdateTasks /\ pc[t] = "dispatch"
    /\ sent' = [sent EXCEPT ![t] = @ + 1]
    /\ lock' = FALSE
    /\ Goto(t, "done")
    /\ UNCHANGED <<data, nat_removed, nat_log, src, track_arp, now, probes, traffic_type, remote, switches, added>>

\* Line 172.
HwinfoRouterboardJob(t) ==
    /\ t = "hwinfo" /\ pc[t] = "get_system_routerboard"
    /\ \E s \in Router("/system/routerboard") :
          /\ data' = get_system_routerboard(data, s)
          /\ Fetched("/system/routerboard", s)
    /\ Goto(t, "get_system_resource")
    /\ UNCHANGED <<lock, sent, nat_removed, nat_log, track_arp, now, probes, traffic_type, remote, switches, added>>

\* Lines 173-174.
HwinfoResourceJob(t) ==
    /\ t = "hwinfo" /\ pc[t] = "get_system_resource"
    /\ \E s \in Router("/system/resource") :
          /\ data' = get_system_resource(data, s)
          /\ Fetched("/system/resource", s)
    /\ lock' = FALSE
    /\ Goto(t, "done")
    /\ UNCHANGED <<sent, nat_removed, nat_log, track_arp, now, probes, traffic_type, remote, switches, added>>

\* What api.arp_ping can do when it is called.
ProbeOutcomes == {"True", "False", "raise"}

\* Line 201.
ProcessHostJob(t) ==
    /\ t \in UpdateTasks /\ pc[t] = "process_host"
    /\ \E ping \in [Keys(hosts_added(data)) -> ProbeOutcomes] :
          LET r == process_host(data, ping, now)
          IN /\ data' = r.d
             /\ probes' = r.probes
             /\ Goto(t, IF r.raised THEN "failed" ELSE After("process_host"))
    /\ UNCHANGED <<lock, sent, nat_removed, nat_log, src, track_arp, now, traffic_type, remote, switches, added>>

\* Line 202.
GetInterfaceTrafficJob(t) ==
    /\ t \in UpdateTasks /\ pc[t] = "get_interface_traffic"
    /\ \E s \in Router("/interface/monitor-traffic") :
          /\ SubFetchEnds(t, "get_interface_traffic",
                          get_interface_traffic(data, s, traffic_type), FALSE)
          /\ Fetched("/interface/monitor-traffic", s)
    /\ UNCHANGED <<nat_removed, nat_log>>

\* Line 207.
GetQueueJob(t) ==
    /\ t \in UpdateTasks /\ pc[t] = "get_queue"
    /\ \E s \in Router("/queue/simple") :
          LET r == get_queue(data, s, traffic_type)
          IN /\ SubFetchEnds(t, "get_queue", r.d, r.raised)
             /\ Fetched("/queue/simple", s)
    /\ UNCHANGED <<nat_removed, nat_log>>

\* No remote action has been requested yet.
NoAction == [call |-> "none", args |-> <<>>, api |-> "none", reply |-> "none"]

EmptyData ==
    [routerboard |-> EmptyRec, resource |-> EmptyRec, interface |-> <<>>,
     arp |-> <<>>, arp_tmp |-> <<>>, nat |-> <<>>, fw_update |-> EmptyRec,
     script |-> <<>>, queue |-> <<>>, dns |-> <<>>, dhcp_server |-> <<>>,
     dhcp_network |-> <<>>, dhcp |-> <<>>, host |-> <<>>]

\* __init__, lines 54-83.
Init ==
    /\ pc = [t \in Tasks |-> "idle"]
    /\ lock = FALSE
    /\ sent = [t \in Tasks |-> 0]
    /\ data = EmptyData
    /\ nat_removed = {}
    /\ nat_log = <<>>
    /\ src = [p \in Paths |-> <<>>]
    /\ track_arp = TRUE
    /\ now = 0
    /\ probes = <<>>
    /\ traffic_type = "Kbps"
    /\ remote = NoAction
    /\ switches = <<>>
    /\ added = [calls |-> <<>>, scheduled |-> {}, off |-> {}]

Next ==
    \E t \in Tasks :
        \/ Trigger(t)
        \/ Acquire(t)
        \/ AcquireTimeout(t)
        \/ FwUpdateJob(t)
        \/ FwUpdateDispatch(t)
        \/ GetInterfaceJob(t)
        \/ GetArpJob(t)
        \/ GetDnsJob(t)
        \/ GetDhcpJob(t)
        \/ ProcessHostJob(t)
        \/ GetInterfaceClientJob(t)
        \/ GetNatJob(t)
        \/ GetSystemResourceJob(t)
        \/ GetScriptJob(t)
        \/ GetInterfaceTrafficJob(t)
        \/ GetQueueJob(t)
        \/ DispatchAndRelease(t)
        \/ HwinfoRouterboardJob(t)
        \/ HwinfoResourceJob(t)

Spec == Init /\ [][Next]_vars

-----------------------------------------------------------------------------
(* Properties of the orchestrator *)

\* The tasks that are between acquiring self.lock and releasing it.
Locked == {t \in Tasks : Holds(t)}

\* An update cycle that has finished its first sub-fetch and not its last.
MidCycle(t) ==
    t \in UpdateTasks /\ \E i \in 2..Len(SubFetches) : pc[t] = SubFetches[i]

\* A step in which signal_update is dispatched.
Dispatches == \E t \in Tasks : sent'[t] = sent[t] + 1

\* C1: at most one of the tasks running async_update or hwinfo_update is
\* between acquiring and releasing the lock, and the lock is locked while
\* there is one.
C1_MutualExclusion ==
    /\ Cardinality(Locked) <= 1
    /\ (Locked # {}) => lock

\* C1 witness: a task is inside its cycle while the two others that take
\* the lock wait for it.
C1_Witness ==
    \E t \in Tasks :
        /\ MidCycle(t)
        /\ \A u \in (UpdateTasks \cup {"hwinfo"}) \ {t} : pc[u] = "acquire"

\* C2: whenever signal_update is dispatched, no update cycle is part-way
\* through its sub-fetches.
C2_NoSignalMidCycle ==
    [][Dispatches => ~(\E u \in Tasks : MidCycle(u))]_vars

\* C3: a completed run of async_update has dispatched signal_update exactly
\* once, and a run that is still at its sub-fetches has dispatched nothing.
C3_OneSignalPerCycle ==
    \A t \in UpdateTasks :
        /\ (pc[t] = "done") => (sent[t] = 1)
        /\ (\E i \in DOMAIN SubFetches : pc[t] = SubFetches[i]) => (sent[t] = 0)

\* C4: a step that changes self.data is taken by a task that holds the lock.
C4_WritesUnderLock ==
    [][\A t \in Tasks : (pc'[t] # pc[t] /\ data' # data) => Holds(t)]_vars

\* C5: a task whose wait for the lock ends while the lock is held by
\* another returns: it is skipped (not failed), and the lock, the data
\* model, the dispatch counts and the fetched records are as before.
C5_TimeoutSkipsSilently ==
    [][\A t \in Tasks :
          (pc[t] = "acquire" /\ lock /\ pc'[t] # "acquire")
          => /\ pc'[t] = "skipped"
             /\ UNCHANGED <<lock, data, sent, src, nat_removed, nat_log,
                             probes, traffic_type, remote, switches, added>>]_vars

\* C5 witness: a trigger was skipped while a cycle holds the lock.
C5_Witness ==
    \E t, u \in Tasks : pc[t] = "skipped" /\ MidCycle(u) /\ lock

\* C6: no update cycle is abandoned by an error inside one of its
\* sub-fetches; only the guard timeout ends a cycle early.
C6_SourceErrorKeepsCycle ==
    \A t \in UpdateTasks : pc[t] # "failed"

\* C7: a sub-fetch in which exactly one of the requested tables comes back
\* empty raises nothing and keeps every entry of every collection.
C7_EmptyFetchRetains ==
    [][\A t \in UpdateTasks :
          (/\ pc'[t] # pc[t]
           /\ Cardinality({p \in PathsOf(pc[t]) : src'[p] = <<>>}) = 1)
          => /\ pc'[t] # "failed"
             /\ \A c \in {"interface", "arp", "dns", "dhcp_server",
                          "dhcp_network", "dhcp", "nat", "script"} :
                   Keys(data[c]) \subseteq Keys(data'[c])]_vars

\* C39: a run of async_update goes to the firmware check only while the
\* fw-update record has no available field; every firmware check that ends
\* leaves the field there, the field is never removed, and it is true
\* exactly when the status is "New version is available".
C39_FirmwareCheckUntilKnown ==
    [][/\ \A t \in UpdateTasks :
             (pc[t] # "get_firmware_update" /\ pc'[t] = "get_firmware_update")
             => "available" \notin DOMAIN data.fw_update
       /\ \A t \in Tasks :
             (pc[t] = "get_firmware_update" /\ pc'[t] # pc[t])
             => "available" \in DOMAIN data'.fw_update
       /\ "available" \in DOMAIN data.fw_update
          => "available" \in DOMAIN data'.fw_update
       /\ "available" \in DOMAIN data'.fw_update
          => data'.fw_update["available"]
                = (/\ "status" \in DOMAIN data'.fw_update
                   /\ data'.fw_update["status"] = "New version is available")]_vars

\* C39 witness: a new version is known to be available and a cycle has
\* gone from the lock to its first sub-fetch without a firmware check.
C39_Witness ==
    /\ "available" \in DOMAIN data.fw_update
    /\ data.fw_update["available"]
    /\ \E t \in UpdateTasks : pc[t] = "get_interface" /\ sent[t] = 0

-----------------------------------------------------------------------------
(* get_nat run cycle after cycle against a changing NAT table *)

\* The router has at most this many NAT rules.
MaxNatRules == 3

NatIds == <<"*1", "*2", "*3", "*4", "*5">>

NatRule(id, action, port) ==
    (".id" :> id) @@ ("action" :> action) @@ ("protocol" :> "tcp")
    @@ ("dst-port" :> port)

\* What the router can report for rule i: a dst-nat rule for tcp port 80,
\* a dst-nat rule with neither protocol nor port and, for the first rule,
\* a src-nat rule.
NatRulesOf(i) ==
    {NatRule(NatIds[i], "dst-nat", "80"),
     (".id" :> NatIds[i]) @@ ("action" :> "dst-nat")}
    \cup (IF i = 1 THEN {NatRule(NatIds[i], "src-nat", "80")} ELSE {})

\* The NAT tables with the rules i, i+1, ... each present or not.
RECURSIVE NatTablesFrom(_)
NatTablesFrom(i) ==
    IF i > MaxNatRules THEN {<<>>}
    ELSE LET rest == NatTablesFrom(i + 1)
         IN rest \cup {<<r>> \o s : r \in NatRulesOf(i), s \in rest}

NatTables == NatTablesFrom(1)

\* One run of get_nat.
GetNatRun ==
    \E s \in NatTables :
        LET r == get_nat(data.nat, nat_removed, nat_log, s)
        IN /\ data' = [data EXCEPT !.nat = r.nat]
           /\ nat_removed' = r.nat_removed
           /\ nat_log' = r.nat_log
           /\ Fetched("/ip/firewall/nat", s)
           /\ UNCHANGED <<pc, lock, sent, track_arp, now, probes, traffic_type, remote, switches, added>>

NextNat == GetNatRun

SpecNat == Init /\ [][NextNat]_vars

\* The names of a NAT collection that more than one of its ids derived.
Colliding(nat) ==
    {nat[i].v["name"] : i \in {i \in DOMAIN nat :
        \E j \in DOMAIN nat : j # i /\ nat[j].v["name"] = nat[i].v["name"]}}

\* The collection as get_nat has it at line 480 when it runs from the
\* current state and the router answers with the table of the next state.
NatParsed == nat_parse(data.nat, src'["/ip/firewall/nat"])

Count(log, name) == Cardinality({i \in DOMAIN log : log[i] = name})

\* C8: after a run of get_nat no two entries of the NAT collection have the
\* same name, and no id that shared its name with another id of the
\* collection is left in it.
C8_NatCollidingAllRemoved ==
    [][\A parsed \in {NatParsed} : \A colliding \in {Colliding(parsed)} :
          /\ Colliding(data'.nat) = {}
          /\ \A i \in DOMAIN parsed :
                parsed[i].v["name"] \in colliding
                => ~Has(data'.nat, parsed[i].k)]_vars

\* C8 witness: the router reported three dst-nat rules with one name, and
\* none of the three is in the collection.
C8_Witness ==
    LET s == src["/ip/firewall/nat"]
    IN /\ Len(s) = 3
       /\ \A i \in 1..3 : s[i] = NatRule(NatIds[i], "dst-nat", "80")
       /\ \A i \in 1..3 : ~Has(data.nat, NatIds[i])

\* C9: the duplicate-rule error is in the log at most once per name; a run
\* that removes a colliding name leaves exactly one record of it in the
\* log, and a run adds no record for a name that was in nat_removed.
C9_NatLoggedOncePerName ==
    [][\A parsed \in {NatParsed} : \A colliding \in {Colliding(parsed)} :
          /\ \A i \in DOMAIN nat_log' : Count(nat_log', nat_log'[i]) = 1
          /\ \A n \in colliding : Count(nat_log', n) = 1
          /\ \A n \in nat_removed : Count(nat_log', n) = Count(nat_log, n)]_vars

\* C9 witness: two names have been logged, and the one logged first
\* collides again in the table the router reported last.
C9_Witness ==
    /\ Len(nat_log) = 2
    /\ nat_log[1] \in Colliding(nat_parse(<<>>, src["/ip/firewall/nat"]))
    /\ Count(nat_log, nat_log[1]) = 1

-----------------------------------------------------------------------------
(* get_interface and get_interface_client run cycle after cycle against a  *)
(* changing ARP table and bridge host table                                *)

\* The router has at most this many ARP entries.
MaxArpEntries == 2

\* The router has at most this many bridge hosts.
MaxHostEntries == 1

ArpEntry(mac, address, interface, invalid) ==
    ("mac-address" :> mac) @@ ("address" :> address)
    @@ ("interface" :> interface) @@ ("invalid" :> invalid)

HostEntry(mac, interface, local) ==
    ("mac-address" :> mac) @@ ("interface" :> interface) @@ ("local" :> local)

\* The ARP entries the router can report: two hosts on the port named
\* "lan", a host behind the bridge, an invalid entry on "lan".
ArpEntries ==
    {ArpEntry("M1", "A1", "lan", FALSE), ArpEntry("M2", "A2", "lan", FALSE),
     ArpEntry("M3", "A3", "bridge", FALSE), ArpEntry("M4", "A4", "lan", TRUE)}

\* The bridge hosts the router can report: the host behind the bridge,
\* learned on port "lan", a host on "lan" that has no ARP entry, and the
\* port's own MAC.
HostEntries ==
    {HostEntry("M3", "lan", FALSE), HostEntry("M6", "lan", FALSE),
     HostEntry("M5", "lan", TRUE)}

\* The sequences of at most n members of S without a repeated member: a
\* table of the router does not hold the same row twice.
RECURSIVE SeqsUpTo(_, _)
SeqsUpTo(S, n) ==
    IF n = 0 THEN {<<>>}
    ELSE LET shorter == SeqsUpTo(S, n - 1)
         IN shorter
            \cup {Append(q, x) :
                     <<q, x>> \in {y \in shorter \X S :
                                     \A i \in DOMAIN y[1] : y[1][i] # y[2]}}

ArpTables == SeqsUpTo(ArpEntries, MaxArpEntries)

HostTables == SeqsUpTo(HostEntries, MaxHostEntries)

\* The interface table: port ether1 renamed to "lan", port ether2.
ArpInterfaces ==
    {<<Rec2("default-name", "ether1", "name", "lan"),
       Rec2("default-name", "ether2", "name", "ether2")>>}

\* The scan-interval timer starts a cycle.
ArpTrigger ==
    /\ pc["timer"] \in {"idle", "done"}
    /\ Goto("timer", "get_interface")
    /\ UNCHANGED <<lock, sent, data, nat_removed, nat_log, src, track_arp, now, probes, traffic_type, remote, switches, added>>

\* The user changes the track-ARP option of the config entry.
ArpOption ==
    /\ track_arp' = ~track_arp
    /\ UNCHANGED <<pc, lock, sent, data, nat_removed, nat_log, src, now, probes, traffic_type, remote, switches, added>>

\* Line 197.
ArpGetInterface ==
    /\ pc["timer"] = "get_interface"
    /\ \E s \in ArpInterfaces :
          /\ data' = get_interface(data, s)
          /\ Fetched("/interface", s)
    /\ Goto("timer", "get_interface_client")
    /\ UNCHANGED <<lock, sent, nat_removed, nat_log, track_arp, now, probes, traffic_type, remote, switches, added>>

\* Line 203.
ArpGetInterfaceClient ==
    /\ pc["timer"] = "get_interface_client"
    /\ \E a \in ArpTables, h \in HostTables :
          LET r == get_interface_client(data, track_arp, a, h)
          IN /\ data' = r.d
             /\ Goto("timer", IF r.raised THEN "failed" ELSE "done")
             /\ src' = [src EXCEPT
                          !["/ip/arp"] = IF track_arp THEN a ELSE @,
                          !["/interface/bridge/host"] =
                              IF r.bridge_fetched THEN h ELSE @]
    /\ UNCHANGED <<lock, sent, nat_removed, nat_log, track_arp, now, probes, traffic_type, remote, switches, added>>

NextArp ==
    \/ ArpTrigger
    \/ ArpOption
    \/ ArpGetInterface
    \/ ArpGetInterfaceClient

SpecArp == Init /\ [][NextArp]_vars

\* The valid ARP entries of table arp that resolve to interface key uid.
ValidArpOn(arp, uid) ==
    {i \in DOMAIN arp :
        /\ ~arp[i]["invalid"]
        /\ arp[i]["interface"] # "bridge"
        /\ get_iface_from_entry(data.interface, arp[i]) = uid}

\* The bridge host table is read when a valid ARP entry is on the bridge.
BridgeSeen(arp) ==
    \E i \in DOMAIN arp : ~arp[i]["invalid"] /\ arp[i]["interface"] = "bridge"

\* The bridge hosts of table hosts that resolve to interface key uid.
HostsOn(hosts, uid) ==
    {i \in DOMAIN hosts :
        /\ ~hosts[i]["local"]
        /\ get_iface_from_entry(data.interface, hosts[i]) = uid}

\* Interface key uid is ambiguous in a run that read the tables arp and
\* hosts: two or more valid ARP entries resolve to it, or a bridge host
\* resolves to it when its slot already holds a MAC.
Ambiguous(arp, hosts, uid) ==
    \/ Cardinality(ValidArpOn(arp, uid)) >= 2
    \/ /\ BridgeSeen(arp)
       /\ HostsOn(hosts, uid) # {}
       /\ Cardinality(ValidArpOn(arp, uid)) + Cardinality(HostsOn(hosts, uid)) >= 2

\* C10: a run of get_interface_client with ARP tracking enabled leaves
\* "multiple" as client-mac-address and as client-ip-address of every
\* interface that two or more valid ARP entries resolved to, or that a
\* bridge host resolved to when its slot already held a MAC.
C10_AmbiguousClientIsMultiple ==
    [][(/\ pc["timer"] = "get_interface_client"
        /\ pc'["timer"] = "done"
        /\ track_arp)
       => \A uid \in Keys(data.interface) :
             Ambiguous(src'["/ip/arp"], src'["/interface/bridge/host"], uid)
             => /\ Get(data'.interface, uid)["client-mac-address"] = "multiple"
                /\ Get(data'.interface, uid)["client-ip-address"] = "multiple"]_vars

\* C10 witness: the run read two valid ARP entries on port "lan" and the
\* client of ether1 is "multiple".
C10_Witness ==
    /\ pc["timer"] = "done"
    /\ track_arp
    /\ src["/ip/arp"] = <<ArpEntry("M1", "A1", "lan", FALSE),
                          ArpEntry("M2", "A2", "lan", FALSE)>>
    /\ Has(data.interface, "ether1")
    /\ Get(data.interface, "ether1")["client-mac-address"] = "multiple"
    /\ Get(data.interface, "ether1")["client-ip-address"] = "multiple"

\* A run of get_interface_client that returned, with ARP tracking enabled.
ArpRunTracked ==
    /\ pc["timer"] = "get_interface_client"
    /\ pc'["timer"] = "done"
    /\ track_arp

\* The run read exactly one ARP entry, a valid one on the bridge, and
\* exactly one bridge host, not local, that resolves to interface key uid.
OneBridgeArpOneHost(arp, hosts, uid) ==
    /\ Len(arp) = 1
    /\ ~arp[1]["invalid"]
    /\ arp[1]["interface"] = "bridge"
    /\ Len(hosts) = 1
    /\ ~hosts[1]["local"]
    /\ get_iface_from_entry(data.interface, hosts[1]) = uid

\* C11 as claimed: with one bridge ARP entry (M, A) and one bridge host
\* with a different MAC M2 on key K, interface K gets client-mac-address M2
\* and client-ip-address A.
C11_JoinIgnoresMac ==
    [][ArpRunTracked
       => \A arp \in {src'["/ip/arp"]} :
          \A hosts \in {src'["/interface/bridge/host"]} :
          \A uid \in Keys(data.interface) :
             (/\ OneBridgeArpOneHost(arp, hosts, uid)
              /\ hosts[1]["mac-address"] # arp[1]["mac-address"])
             => /\ Get(data'.interface, uid)["client-mac-address"]
                      = hosts[1]["mac-address"]
                /\ Get(data'.interface, uid)["client-ip-address"]
                      = arp[1]["address"]]_vars

\* C11 amended: with one bridge ARP entry (M, A) and one bridge host with
\* MAC M2 on key K, interface K gets client-mac-address M2, and its
\* client-ip-address is A when M2 = M and empty when M2 differs from M.
C11_JoinByMac ==
    [][ArpRunTracked
       => \A arp \in {src'["/ip/arp"]} :
          \A hosts \in {src'["/interface/bridge/host"]} :
          \A uid \in Keys(data.interface) :
             OneBridgeArpOneHost(arp, hosts, uid)
             => /\ Get(data'.interface, uid)["client-mac-address"]
                      = hosts[1]["mac-address"]
                /\ Get(data'.interface, uid)["client-ip-address"]
                      = IF hosts[1]["mac-address"] = arp[1]["mac-address"]
                        THEN arp[1]["address"] ELSE ""]_vars

\* C11 witness: the bridge ARP entry and the bridge host have the same MAC
\* and ether1 has that MAC and the ARP entry's address as its client.
C11_Witness ==
    /\ pc["timer"] = "done"
    /\ track_arp
    /\ src["/ip/arp"] = <<ArpEntry("M3", "A3", "bridge", FALSE)>>
    /\ src["/interface/bridge/host"] = <<HostEntry("M3", "lan", FALSE)>>
    /\ Has(data.interface, "ether1")
    /\ Get(data.interface, "ether1")["client-mac-address"] = "M3"
    /\ Get(data.interface, "ether1")["client-ip-address"] = "A3"

\* C12: after a run of get_interface_client with ARP tracking enabled,
\* every interface without a scratch slot has empty client-ip-address and
\* client-mac-address.
C12_NoSlotClientEmpty ==
    [][ArpRunTracked
       => \A uid \in Keys(data'.interface) :
             ~Has(data'.arp_tmp, uid)
             => /\ Get(data'.interface, uid)["client-mac-address"] = ""
                /\ Get(data'.interface, uid)["client-ip-address"] = ""]_vars

\* C13: a run of get_interface_client with ARP tracking disabled returns,
\* sets both client fields of every interface to "disabled", leaves the
\* scratch collection empty and requests neither the ARP table nor the
\* bridge host table.
C13_DisabledSkipsResolver ==
    [][(pc["timer"] = "get_interface_client" /\ pc'["timer"] # pc["timer"]
        /\ ~track_arp)
       => /\ pc'["timer"] = "done"
          /\ Keys(data'.interface) = Keys(data.interface)
          /\ \A uid \in Keys(data.interface) :
                /\ Get(data'.interface, uid)["client-mac-address"] = "disabled"
                /\ Get(data'.interface, uid)["client-ip-address"] = "disabled"
          /\ data'.arp_tmp = <<>>
          /\ src' = src]_vars

\* C13 witness: tracking is off, an earlier run had attributed a client to
\* ether1, and ether1 now reads "disabled".
C13_Witness ==
    /\ pc["timer"] = "done"
    /\ ~track_arp
    /\ src["/ip/arp"] = <<ArpEntry("M1", "A1", "lan", FALSE)>>
    /\ data.arp_tmp = <<>>
    /\ Has(data.interface, "ether1")
    /\ Get(data.interface, "ether1")["client-mac-address"] = "disabled"

-----------------------------------------------------------------------------
(* get_arp, get_dns, get_dhcp and process_host run cycle after cycle        *)
(* against changing ARP, DNS and lease tables                              *)

\* utcnow() returns at most this time.
MaxTime == 1

\* The ARP table as /ip/arp reports it to get_arp: empty, host M1, host M2.
HostArpTables ==
    {<<>>,
     <<Rec3("mac-address", "M1", "address", "A1", "interface", "ether1")>>,
     <<Rec3("mac-address", "M2", "address", "A2", "interface", "ether1")>>}

\* The static DNS table: empty, or a record for the address of M1.
HostDnsTables ==
    {<<>>, <<Rec2("name", <<"nas", "lan">>, "address", "A1")>>}

\* The lease table: empty; a lease of M1 with a comment and a host-name;
\* a lease of M1 with a host-name only; a lease of M3 without an address.
HostLeaseTables ==
    {<<>>,
     <<Rec3("mac-address", "M1", "address", "A1", "server", "dhcp1")
       @@ Rec2("comment", "printer", "host-name", "hp")>>,
     <<Rec3("mac-address", "M1", "address", "A1", "server", "dhcp1")
       @@ ("host-name" :> "hp")>>,
     <<Rec2("mac-address", "M3", "server", "dhcp1")>>}

HostServerTables == {<<Rec2("name", "dhcp1", "interface", "ether1")>>}

\* The scan-interval timer starts a cycle.  A cycle that an exception has
\* left holds the lock for good: no later cycle runs.
HostTrigger ==
    /\ pc["timer"] \in {"idle", "done"}
    /\ Goto("timer", "get_arp")
    /\ UNCHANGED <<lock, sent, data, nat_removed, nat_log, src, track_arp, now,
                   probes, traffic_type, remote, switches, added>>

\* Time passes between two cycles.
HostTick ==
    /\ pc["timer"] \in {"idle", "done"}
    /\ now < MaxTime
    /\ now' = now + 1
    /\ UNCHANGED <<pc, lock, sent, data, nat_removed, nat_log, src, track_arp,
                   probes, traffic_type, remote, switches, added>>

\* Line 198.
HostGetArp ==
    /\ pc["timer"] = "get_arp"
    /\ \E s \in HostArpTables :
          /\ data' = get_arp(data, s)
          /\ Fetched("/ip/arp", s)
    /\ Goto("timer", "get_dns")
    /\ UNCHANGED <<lock, sent, nat_removed, nat_log, track_arp, now, probes, traffic_type, remote, switches, added>>

\* Line 199.
HostGetDns ==
    /\ pc["timer"] = "get_dns"
    /\ \E s \in HostDnsTables :
          /\ data' = get_dns(data, s)
          /\ Fetched("/ip/dns/static", s)
    /\ Goto("timer", "get_dhcp")
    /\ UNCHANGED <<lock, sent, nat_removed, nat_log, track_arp, now, probes, traffic_type, remote, switches, added>>

\* Line 200.
HostGetDhcp ==
    /\ pc["timer"] = "get_dhcp"
    /\ \E s \in HostServerTables, l \in HostLeaseTables :
          LET r == get_dhcp(data, <<>>, s, l)
          IN /\ data' = r.d
             /\ Goto("timer", IF r.raised THEN "failed" ELSE "process_host")
             /\ src' = [src EXCEPT !["/ip/dhcp-server/network"] = <<>>,
                                   !["/ip/dhcp-server"] = s,
                                   !["/ip/dhcp-server/lease"] = l]
    /\ UNCHANGED <<lock, sent, nat_removed, nat_log, track_arp, now, probes, traffic_type, remote, switches, added>>

\* Line 201.
HostProcess ==
    /\ pc["timer"] = "process_host"
    /\ \E ping \in [Keys(hosts_added(data)) -> ProbeOutcomes] :
          LET r == process_host(data, ping, now)
          IN /\ data' = r.d
             /\ probes' = r.probes
             /\ Goto("timer", IF r.raised THEN "failed" ELSE "done")
    /\ UNCHANGED <<lock, sent, nat_removed, nat_log, src, track_arp, now, traffic_type, remote, switches, added>>

NextHost ==
    \/ HostTrigger
    \/ HostTick
    \/ HostGetArp
    \/ HostGetDns
    \/ HostGetDhcp
    \/ HostProcess

SpecHost == Init /\ [][NextHost]_vars

\* A step of process_host, and one that returned.
HostStep == pc["timer"] = "process_host" /\ pc'["timer"] # "process_host"

HostStepReturned == HostStep /\ pc'["timer"] = "done"

\* The hostname the precedence rule gives host uid with record h: the first
\* label of the static DNS record with its address, else the non-empty
\* DHCP comment, else the DHCP host-name that is not "unknown", else uid.
HostnameByPrecedence(d, uid, h) ==
    IF \E i \in DOMAIN d.dns : d.dns[i].v["address"] = h["address"]
    THEN dns_label(d.dns, h["address"])
    ELSE IF Has(d.dhcp, uid) /\ Get(d.dhcp, uid)["comment"] # ""
    THEN Get(d.dhcp, uid)["comment"]
    ELSE IF Has(d.dhcp, uid) /\ Get(d.dhcp, uid)["host-name"] # "unknown"
    THEN Get(d.dhcp, uid)["host-name"]
    ELSE uid

\* C14: after a cycle, every host has the hostname the precedence rule
\* gives it from the DNS records and leases of that cycle.
C14_HostnamePrecedence ==
    [][HostStepReturned
       => \A i \in DOMAIN data'.host :
             data'.host[i].v["hostname"]
                = HostnameByPrecedence(data', data'.host[i].k,
                                       data'.host[i].v)]_vars

HostFields ==
    {"address", "mac-address", "interface", "hostname", "last-seen",
     "available"}

\* C15: a run of process_host in which no probe raises returns, and after
\* it every host carries the six fields; a host that is new in this run
\* and was not probed has available false and last-seen "unknown".
C15_HostFieldsBackfilled ==
    [][(HostStep /\ \A i \in DOMAIN probes' : probes'[i].result # "raise")
       => /\ pc'["timer"] = "done"
          /\ \A i \in DOMAIN data'.host :
                /\ HostFields \subseteq DOMAIN data'.host[i].v
                /\ (/\ ~Has(data.host, data'.host[i].k)
                    /\ \A j \in DOMAIN probes' :
                          probes'[j].uid # data'.host[i].k)
                   => /\ data'.host[i].v["available"] = FALSE
                      /\ data'.host[i].v["last-seen"] = PyStr("unknown")]_vars

\* The last-seen value host uid had before the run; a host without one
\* gets the default of line 798.
LastSeenBefore(uid) ==
    IF Has(data.host, uid) /\ "last-seen" \in DOMAIN Get(data.host, uid)
    THEN Get(data.host, uid)["last-seen"] ELSE PyBool(FALSE)

\* C16: in a run of process_host, every probe is for a host whose address
\* and interface both differ from "unknown" and carries that address and
\* interface; a host with an unknown address or interface is not probed;
\* a probe that returns True leaves available true and last-seen at the
\* current time; a probe that returns False leaves available false and
\* last-seen as it was before the run.
C16_ProbeOnlyResolved ==
    [][HostStep
       => /\ \A j \in DOMAIN probes' :
                \A h \in {Get(data'.host, probes'[j].uid)} :
                   /\ h["address"] # "unknown" /\ h["interface"] # "unknown"
                   /\ probes'[j].address = h["address"]
                   /\ probes'[j].interface = h["interface"]
                   /\ probes'[j].result = "True"
                      => /\ h["available"] = TRUE
                         /\ h["last-seen"] = PyTime(now)
                   /\ probes'[j].result = "False"
                      => /\ h["available"] = FALSE
                         /\ h["last-seen"] = LastSeenBefore(probes'[j].uid)
          /\ \A j \in DOMAIN probes', k \in DOMAIN probes' :
                (probes'[j].uid = probes'[k].uid) => j = k
          /\ HostStepReturned
             => \A i \in DOMAIN data'.host :
                   (/\ data'.host[i].v["address"] # "unknown"
                    /\ data'.host[i].v["interface"] # "unknown")
                   => \E j \in DOMAIN probes' :
                         probes'[j].uid = data'.host[i].k]_vars

\* C16 witness: host M1 was reachable at time 0; at time 1 its probe
\* returned False, and it is unavailable with last-seen still time 0.
C16_Witness ==
    /\ pc["timer"] = "done"
    /\ now = 1
    /\ \E j \in DOMAIN probes : probes[j].uid = "M1" /\ probes[j].result = "False"
    /\ Has(data.host, "M1")
    /\ Get(data.host, "M1")["available"] = FALSE
    /\ Get(data.host, "M1")["last-seen"] = PyTime(0)

\* C17: a run of process_host with a probe that raises still returns, so
\* that the cycle goes on, and leaves the host of that probe unavailable.
C17_ProbeErrorSwallowed ==
    [][HostStep
       => \A j \in DOMAIN probes' :
             probes'[j].result = "raise"
             => /\ pc'["timer"] = "done"
                /\ "available" \in DOMAIN Get(data'.host, probes'[j].uid)
                /\ Get(data'.host, probes'[j].uid)["available"] = FALSE]_vars

\* C18: a run of process_host adds exactly the keys of the leases and of
\* the ARP entries that are not hosts yet, a new host that has a lease with
\* source "dhcp" and any other new host with source "arp"; no step of the
\* controller changes the source of a host.
C18_SourceFirstWriter ==
    [][/\ \A i \in DOMAIN data.host :
             /\ Has(data'.host, data.host[i].k)
             /\ Get(data'.host, data.host[i].k)["source"]
                   = data.host[i].v["source"]
       /\ HostStep
          => /\ Keys(data'.host)
                   = Keys(data.host) \cup Keys(data.dhcp) \cup Keys(data.arp)
             /\ \A i \in DOMAIN data'.host :
                   ~Has(data.host, data'.host[i].k)
                   => data'.host[i].v["source"]
                         = IF Has(data.dhcp, data'.host[i].k)
                           THEN "dhcp" ELSE "arp"]_vars

\* C18 witness: M1 is in the lease collection and in the ARP collection
\* and is a host with source "dhcp"; M2 is a host with source "arp".
C18_Witness ==
    /\ pc["timer"] = "done"
    /\ Has(data.dhcp, "M1") /\ Has(data.arp, "M1")
    /\ Has(data.host, "M1") /\ Get(data.host, "M1")["source"] = "dhcp"
    /\ Has(data.host, "M2") /\ Get(data.host, "M2")["source"] = "arp"

-----------------------------------------------------------------------------
(* get_arp, get_dns, get_dhcp and process_host run cycle after cycle while *)
(* a host moves: its lease or its ARP entry gets another address and       *)
(* another interface                                                       *)

\* The ARP table: empty, M2 with A2 on ether1, M2 with A3 on ether2.
MoveArpTables ==
    {<<>>,
     <<Rec3("mac-address", "M2", "address", "A2", "interface", "ether1")>>,
     <<Rec3("mac-address", "M2", "address", "A3", "interface", "ether2")>>}

\* The lease table: empty, M1 with A1 from dhcp1, M1 with A4 from dhcp2.
MoveLeaseTables ==
    {<<>>,
     <<Rec3("mac-address", "M1", "address", "A1", "server", "dhcp1")>>,
     <<Rec3("mac-address", "M1", "address", "A4", "server", "dhcp2")>>}

MoveServerTables ==
    {<<Rec2("name", "dhcp1", "interface", "ether1"),
       Rec2("name", "dhcp2", "interface", "ether2")>>}

\* Line 198.
MoveGetArp ==
    /\ pc["timer"] = "get_arp"
    /\ \E s \in MoveArpTables :
          /\ data' = get_arp(data, s)
          /\ Fetched("/ip/arp", s)
    /\ Goto("timer", "get_dns")
    /\ UNCHANGED <<lock, sent, nat_removed, nat_log, track_arp, now, probes,
                   traffic_type, remote, switches, added>>

\* Line 200.
MoveGetDhcp ==
    /\ pc["timer"] = "get_dhcp"
    /\ \E s \in MoveServerTables, l \in MoveLeaseTables :
          LET r == get_dhcp(data, <<>>, s, l)
          IN /\ data' = r.d
             /\ Goto("timer", IF r.raised THEN "failed" ELSE "process_host")
             /\ src' = [src EXCEPT !["/ip/dhcp-server/network"] = <<>>,
                                   !["/ip/dhcp-server"] = s,
                                   !["/ip/dhcp-server/lease"] = l]
    /\ UNCHANGED <<lock, sent, nat_removed, nat_log, track_arp, now, probes,
                   traffic_type, remote, switches, added>>

NextMove ==
    \/ HostTrigger
    \/ MoveGetArp
    \/ HostGetDns
    \/ MoveGetDhcp
    \/ HostProcess

SpecMove == Init /\ [][NextMove]_vars

\* The fields of a host that process_host copies from a lease or from an
\* ARP entry.
HostCopiedFields == {"address", "mac-address", "interface"}

\* C38: no step changes the address, the mac-address or the interface of a
\* host that exists, whatever the lease and the ARP entry of its MAC say
\* now, and process_host probes a host that existed before the run with
\* the address and the interface the host had before the run.
C38_HostIdentityFrozen ==
    [][/\ \A i \in DOMAIN data.host :
             \A old \in {data.host[i]} :
                /\ HostCopiedFields \subseteq DOMAIN old.v
                /\ Has(data'.host, old.k)
                /\ \A f \in HostCopiedFields :
                      Get(data'.host, old.k)[f] = old.v[f]
       /\ HostStep
          => \A j \in DOMAIN probes' :
                Has(data.host, probes'[j].uid)
                => /\ probes'[j].address
                         = Get(data.host, probes'[j].uid)["address"]
                   /\ probes'[j].interface
                         = Get(data.host, probes'[j].uid)["interface"]]_vars

\* C38 witness: process_host has run while the lease of M1 had the address
\* A4 on ether2 and the ARP entry of M2 the address A3 on ether2; the host
\* M1, made from the lease with A1 on ether1, and the host M2, made from
\* the entry with A2 on ether1, kept their pairs, and M2 was probed with
\* it.
C38_Witness ==
    /\ pc["timer"] = "done"
    /\ Has(data.dhcp, "M1")
    /\ Get(data.dhcp, "M1")["address"] = "A4"
    /\ Get(data.dhcp, "M1")["interface"] = "ether2"
    /\ Has(data.host, "M1")
    /\ Get(data.host, "M1")["address"] = "A1"
    /\ Get(data.host, "M1")["interface"] = "ether1"
    /\ Has(data.arp, "M2")
    /\ Get(data.arp, "M2")["address"] = "A3"
    /\ Get(data.arp, "M2")["interface"] = "ether2"
    /\ Has(data.host, "M2")
    /\ Get(data.host, "M2")["address"] = "A2"
    /\ Get(data.host, "M2")["interface"] = "ether1"
    /\ \E j \in DOMAIN probes :
          /\ probes[j].uid = "M2"
          /\ probes[j].address = "A2"
          /\ probes[j].interface = "ether1"

-----------------------------------------------------------------------------
(* Cycles of get_interface, get_arp, get_dns, get_dhcp and process_host    *)
(* against snapshots that lose entries                                     *)

\* The interfaces as /interface reports them to get_interface: none,
\* ether1 and ether2, ether1 alone.
KeysInterfaces ==
    {<<>>,
     <<Rec2("default-name", "ether1", "name", "ether1"),
       Rec2("default-name", "ether2", "name", "ether2")>>,
     <<Rec2("default-name", "ether1", "name", "ether1")>>}

\* The scan-interval timer starts a cycle.
KeysTrigger ==
    /\ pc["timer"] \in {"idle", "done"}
    /\ Goto("timer", "get_interface")
    /\ UNCHANGED <<lock, sent, data, nat_removed, nat_log, src, track_arp, now,
                   probes, traffic_type, remote, switches, added>>

\* Line 197.
KeysGetInterface ==
    /\ pc["timer"] = "get_interface"
    /\ \E s \in KeysInterfaces :
          /\ data' = get_interface(data, s)
          /\ Fetched("/interface", s)
    /\ Goto("timer", "get_arp")
    /\ UNCHANGED <<lock, sent, nat_removed, nat_log, track_arp, now, probes, traffic_type, remote, switches, added>>

NextKeys ==
    \/ KeysTrigger
    \/ KeysGetInterface
    \/ HostGetArp
    \/ HostGetDns
    \/ HostGetDhcp
    \/ HostProcess

SpecKeys == Init /\ [][NextKeys]_vars

\* C19: no step of the controller removes a key from the host registry or
\* from the interface collection, whatever the router answers.
C19_KeysNeverRemoved ==
    [][/\ \A i \in DOMAIN data.host : Has(data'.host, data.host[i].k)
       /\ \A i \in DOMAIN data.interface :
             Has(data'.interface, data.interface[i].k)]_vars

\* C19 witness: a cycle has ended whose interface snapshot and lease
\* snapshot were empty, and the interface and the host of the lease of
\* earlier cycles are still there.
C19_Witness ==
    /\ pc["timer"] = "done"
    /\ src["/interface"] = <<>>
    /\ src["/ip/dhcp-server/lease"] = <<>>
    /\ src["/ip/arp"] = <<>>
    /\ Has(data.interface, "ether1") /\ Has(data.interface, "ether2")
    /\ Has(data.host, "M2")

-----------------------------------------------------------------------------
(* Runs of get_system_resource against changing resource records          *)

\* The largest total-memory and total-hdd-space of the enumerated records.
MaxTotal == 20

\* The memory fields of a /system/resource record: every free <= total up
\* to MaxTotal, every free for total 200 (all halves k + 1/2 occur), total
\* 1000 with free 250, a record without free-memory, one without
\* total-memory and one without either.
ResMemory ==
    {Rec2("total-memory", t, "free-memory", t - u) :
        <<t, u>> \in {x \in (0..MaxTotal) \X (0..MaxTotal) : x[2] <= x[1]}}
    \cup {Rec2("total-memory", 200, "free-memory", f) : f \in 0..200}
    \cup {Rec2("total-memory", 1000, "free-memory", 250),
          Rec2("total-memory", 40, "free-memory", 17),
          ("total-memory" :> 40), ("free-memory" :> 17), <<>>}

\* The same for the disk fields.
ResHdd ==
    {Rec2("total-hdd-space", m["total-memory"], "free-hdd-space", m["free-memory"]) :
        m \in {x \in ResMemory : DOMAIN x = {"total-memory", "free-memory"}}}
    \cup {("total-hdd-space" :> 40), ("free-hdd-space" :> 17), <<>>}

\* /system/resource as the router reports it to get_system_resource: every
\* memory part with one disk part, and every disk part with one memory part.
ResourceTables ==
    {<<m @@ Rec2("total-hdd-space", 40, "free-hdd-space", 17)>> :
        m \in ResMemory}
    \cup {<<Rec2("total-memory", 1000, "free-memory", 250) @@ h>> :
             h \in ResHdd}

\* The scan-interval timer starts a cycle.
ResTrigger ==
    /\ pc["timer"] \in {"idle", "done"}
    /\ Goto("timer", "get_system_resource")
    /\ UNCHANGED <<lock, sent, data, nat_removed, nat_log, src, track_arp, now,
                   probes, traffic_type, remote, switches, added>>

\* Line 205.
ResGetSystemResource ==
    /\ pc["timer"] = "get_system_resource"
    /\ \E s \in ResourceTables :
          /\ data' = get_system_resource(data, s)
          /\ Fetched("/system/resource", s)
    /\ Goto("timer", "done")
    /\ UNCHANGED <<lock, sent, nat_removed, nat_log, track_arp, now, probes, traffic_type, remote, switches, added>>

NextRes ==
    \/ ResTrigger
    \/ ResGetSystemResource

SpecRes == Init /\ [][NextRes]_vars

\* The record get_system_resource has just read.
ResRead == src["/system/resource"][1]

\* value is "unknown" when total is not positive, and otherwise the integer
\* that Python's round() gives for the exact quotient 100 * (total - free) /
\* total.
UsageIsRoundOfQuotient(value, total, free) ==
    IF total > 0 THEN value = PyInt(RoundDiv(100 * (total - free), total))
    ELSE value = PyStr("unknown")

\* value is "unknown" when total is not positive, and otherwise an integer
\* at most one half away from the exact 100 * (total - free) / total.
UsageIsNearest(value, total, free) ==
    IF total > 0
    THEN /\ DOMAIN value = {"int"}
         /\ 2 * (100 * (total - free) - value.int * total) <= total
         /\ 2 * (value.int * total - 100 * (total - free)) <= total
    ELSE value = PyStr("unknown")

\* C20: after get_system_resource, memory-usage is "unknown" when
\* total-memory is zero or absent and otherwise round(100 * (total-memory -
\* free-memory) / total-memory); hdd-usage likewise.
C20_UsageIsRound ==
    pc["timer"] = "done"
    => \A e \in {ResRead} :
          /\ UsageIsRoundOfQuotient(data.resource["memory-usage"],
                                    from_entry(e, "total-memory", 0),
                                    from_entry(e, "free-memory", 0))
          /\ UsageIsRoundOfQuotient(data.resource["hdd-usage"],
                                    from_entry(e, "total-hdd-space", 0),
                                    from_entry(e, "free-hdd-space", 0))

\* C20 as amended: after get_system_resource, memory-usage is "unknown"
\* when total-memory is zero or absent and otherwise an integer nearest to
\* 100 * (total-memory - free-memory) / total-memory, either neighbour when
\* that is an exact half; hdd-usage likewise; the run always returns.
C20_UsageIsNearestPercent ==
    /\ pc["timer"] # "failed"
    /\ pc["timer"] = "done"
       => \A e \in {ResRead} :
             /\ UsageIsNearest(data.resource["memory-usage"],
                               from_entry(e, "total-memory", 0),
                               from_entry(e, "free-memory", 0))
             /\ UsageIsNearest(data.resource["hdd-usage"],
                               from_entry(e, "total-hdd-space", 0),
                               from_entry(e, "free-hdd-space", 0))

\* C20 witness: total-memory 1000 with free-memory 250 gave memory-usage
\* 75, and total-hdd-space 40 with free-hdd-space 17 (57.5 percent) gave
\* hdd-usage 57.
C20_Witness ==
    /\ pc["timer"] = "done"
    /\ ResRead = Rec2("total-memory", 1000, "free-memory", 250)
                 @@ Rec2("total-hdd-space", 40, "free-hdd-space", 17)
    /\ data.resource["memory-usage"] = PyInt(75)
    /\ data.resource["hdd-usage"] = PyInt(57)

-----------------------------------------------------------------------------
(* Runs of get_queue against changing queue tables and units               *)

\* The largest number of queues the router reports.
MaxQueues == 2

\* Queue names are unique on the router.
QueueNames == <<"q1", "q2", "q3">>

\* The records /queue/simple can report for the queue called name: one
\* with max-limit alone, one with every rate field, one whose limit-at has
\* a single part and one whose max-limit has three parts.
QueueRecords(name) ==
    {Rec2("name", name, "max-limit", <<1000000, 2000000>>),
     Rec3("name", name, "max-limit", <<1500, 2500>>, "limit-at", <<500, 8>>)
        @@ Rec3("burst-limit", <<4000, 12000>>, "burst-threshold", <<0, 999>>,
                "burst-time", <<"1s", "2s">>),
     Rec3("name", name, "max-limit", <<3000, 4000>>, "limit-at", <<5>>),
     Rec2("name", name, "max-limit", <<1, 2, 3>>)}

\* The tables of n queues, the i-th called QueueNames[i].
RECURSIVE QueueTablesOf(_)
QueueTablesOf(n) ==
    IF n = 0 THEN {<<>>}
    ELSE {Append(q, r) : q \in QueueTablesOf(n - 1),
                         r \in QueueRecords(QueueNames[n])}

QueueTables == UNION {QueueTablesOf(n) : n \in 0..MaxQueues}

\* The units the option can name; "Gbps" is none the controller knows.
QueueUnits == {"bps", "Kbps", "Mbps", "KB/s", "Gbps"}

\* The scan-interval timer starts a cycle.  A cycle that an exception has
\* left holds the lock for good: no later cycle runs.
QueueTrigger ==
    /\ pc["timer"] \in {"idle", "done"}
    /\ Goto("timer", "get_queue")
    /\ UNCHANGED <<lock, sent, data, nat_removed, nat_log, src, track_arp, now,
                   probes, traffic_type, remote, switches, added>>

\* The user changes the unit option of the config entry between two cycles.
QueueOption ==
    /\ pc["timer"] \in {"idle", "done"}
    /\ \E unit \in QueueUnits \ {traffic_type} : traffic_type' = unit
    /\ UNCHANGED <<pc, lock, sent, data, nat_removed, nat_log, src, track_arp,
                   now, probes, remote, switches, added>>

\* Line 207.
QueueGetQueue ==
    /\ pc["timer"] = "get_queue"
    /\ \E s \in QueueTables :
          LET r == get_queue(data, s, traffic_type)
          IN /\ data' = r.d
             /\ Fetched("/queue/simple", s)
             /\ Goto("timer", IF r.raised THEN "failed" ELSE "done")
    /\ UNCHANGED <<lock, sent, nat_removed, nat_log, track_arp, now, probes,
                   traffic_type, remote, switches, added>>

NextQueue ==
    \/ QueueTrigger
    \/ QueueOption
    \/ QueueGetQueue

SpecQueue == Init /\ [][NextQueue]_vars

\* A run of get_queue, and one that returned.
QueueStep == pc["timer"] = "get_queue" /\ pc'["timer"] # "get_queue"

QueueStepReturned == QueueStep /\ pc'["timer"] = "done"

\* The label and the divisor of the configured unit: a unit that is not
\* recognised counts as bps with divisor 1.
UnitLabel(option) ==
    IF option \in {"Kbps", "Mbps", "B/s", "KB/s", "MB/s"} THEN option ELSE "bps"

UnitDivisor(option) ==
    CASE option = "Kbps" -> 1000 [] option = "Mbps" -> 1000000
      [] option = "B/s" -> 8 [] option = "KB/s" -> 8000
      [] option = "MB/s" -> 8000000 [] OTHER -> 1

\* text is "n unit" with the label of the option and n an integer nearest
\* to raw divided by the option's divisor.
RenderedFrom(text, raw, option) ==
    /\ DOMAIN text = {"value", "unit"}
    /\ text.unit = UnitLabel(option)
    /\ 2 * (raw - text.value * UnitDivisor(option)) <= UnitDivisor(option)
    /\ 2 * (text.value * UnitDivisor(option) - raw) <= UnitDivisor(option)

\* Every rate field of queue record rec has two parts, and the upload and
\* download fields derived from it are there and rendered from those parts.
QueueWhole(rec, option) ==
    \A i \in DOMAIN QueueRateFields :
       \A f \in {QueueRateFields[i]} :
          /\ Len(rec[f]) = 2
          /\ ("upload-" \o f) \in DOMAIN rec
          /\ ("download-" \o f) \in DOMAIN rec
          /\ RenderedFrom(rec["upload-" \o f], rec[f][1], option)
          /\ RenderedFrom(rec["download-" \o f], rec[f][2], option)

\* C21: after a run of get_queue that returned, every queue has, for each
\* of max-limit, limit-at, burst-limit and burst-threshold, the upload and
\* the download field rendered from the first and the second part of the
\* raw specification: scaled by the divisor of the configured unit, rounded
\* and followed by the unit label, an unrecognised unit counting as bps.
C21_QueueRatesRendered ==
    [][QueueStepReturned
       => \A i \in DOMAIN data'.queue :
             QueueWhole(data'.queue[i].v, traffic_type)]_vars

\* C21 witness: max-limit "1000000/2000000" with Mbps gave "1 Mbps" and
\* "2 Mbps".
C21_Witness ==
    /\ pc["timer"] = "done"
    /\ traffic_type = "Mbps"
    /\ Has(data.queue, "q1")
    /\ Get(data.queue, "q1")["max-limit"] = <<1000000, 2000000>>
    /\ Get(data.queue, "q1")["upload-max-limit"] = Rendered(1, "Mbps")
    /\ Get(data.queue, "q1")["download-max-limit"] = Rendered(2, "Mbps")

\* C21 witness of the unrecognised unit: "Gbps" gave "1500 bps".
C21_WitnessUnknownUnit ==
    /\ pc["timer"] = "done"
    /\ traffic_type = "Gbps"
    /\ Has(data.queue, "q2")
    /\ Get(data.queue, "q2")["max-limit"] = <<1500, 2500>>
    /\ Get(data.queue, "q2")["upload-max-limit"] = Rendered(1500, "bps")

\* A rate field of queue record rec does not split in two parts.
QueueMalformed(rec) ==
    \E i \in DOMAIN QueueRateFields : Len(rec[QueueRateFields[i]]) # 2

\* C22: after a run of get_queue, a queue with a malformed rate
\* specification is as it was before the run (held back), and every other
\* queue has all its derived fields from its raw values.
C22_MalformedQueueHeldBack ==
    [][QueueStep
       => \A i \in DOMAIN data'.queue :
             \A rec \in {data'.queue[i].v} :
                IF QueueMalformed(rec)
                THEN /\ Has(data.queue, data'.queue[i].k)
                     /\ Get(data.queue, data'.queue[i].k) = rec
                ELSE QueueWhole(rec, traffic_type)]_vars

-----------------------------------------------------------------------------
(* Cycles of get_interface, get_dhcp and get_interface_traffic against     *)
(* changing tables                                                         *)

\* The interfaces as /interface reports them: none, ether1 called "lan",
\* ether1 without a name.
MergeInterfaces ==
    {<<>>,
     <<Rec2("default-name", "ether1", "name", "lan")>>,
     <<("default-name" :> "ether1")>>}

\* The network, server and lease tables as the router reports them
\* together to one run of get_dhcp.
MergeDhcpTables ==
    {<<<<>>, <<>>, <<>>>>,
     <<<<("address" :> "10.0.0.0/24")>>,
       <<Rec2("name", "dhcp1", "interface", "ether1")>>,
       <<Rec3("mac-address", "M1", "address", "A1", "server", "dhcp1")>>>>,
     <<<<Rec2("address", "10.0.0.0/24", "gateway", "G1"),
         ("address" :> "10.0.1.0/24")>>,
       <<Rec2("name", "dhcp1", "interface", "ether2")>>,
       <<>>>>,
     <<<<>>,
       <<("name" :> "dhcp1")>>,
       <<Rec3("mac-address", "M1", "address", "A1", "server", "dhcp1")>>>>,
     <<<<>>,
       <<Rec2("name", "dhcp1", "interface", "ether1")>>,
       <<Rec2("mac-address", "M3", "address", "A3")>>>>}

\* The records api.get_traffic returns: none, one for "lan", one for
\* "ether1".
MergeTraffic ==
    {<<>>,
     <<Rec3("name", "lan", "rx-bits-per-second", 1500,
            "tx-bits-per-second", 2600)>>,
     <<Rec3("name", "ether1", "rx-bits-per-second", 8000,
            "tx-bits-per-second", 0)>>}

\* The user changes the unit option between two cycles.
MergeOption ==
    /\ pc["timer"] \in {"idle", "done"}
    /\ traffic_type' = IF traffic_type = "Kbps" THEN "Mbps" ELSE "Kbps"
    /\ UNCHANGED <<pc, lock, sent, data, nat_removed, nat_log, src, track_arp,
                   now, probes, remote, switches, added>>

\* Line 197.
MergeGetInterface ==
    /\ pc["timer"] = "get_interface"
    /\ \E s \in MergeInterfaces :
          /\ data' = get_interface(data, s)
          /\ Fetched("/interface", s)
    /\ Goto("timer", "get_dhcp")
    /\ UNCHANGED <<lock, sent, nat_removed, nat_log, track_arp, now, probes,
                   traffic_type, remote, switches, added>>

\* Line 200.
MergeGetDhcp ==
    /\ pc["timer"] = "get_dhcp"
    /\ \E s \in MergeDhcpTables :
          LET r == get_dhcp(data, s[1], s[2], s[3])
          IN /\ data' = r.d
             /\ Goto("timer", IF r.raised THEN "failed"
                              ELSE "get_interface_traffic")
             /\ src' = [src EXCEPT !["/ip/dhcp-server/network"] = s[1],
                                   !["/ip/dhcp-server"] = s[2],
                                   !["/ip/dhcp-server/lease"] = s[3]]
    /\ UNCHANGED <<lock, sent, nat_removed, nat_log, track_arp, now, probes,
                   traffic_type, remote, switches, added>>

\* Line 202.
MergeGetInterfaceTraffic ==
    /\ pc["timer"] = "get_interface_traffic"
    /\ \E s \in MergeTraffic :
          /\ data' = get_interface_traffic(data, s, traffic_type)
          /\ Fetched("/interface/monitor-traffic", s)
    /\ Goto("timer", "done")
    /\ UNCHANGED <<lock, sent, nat_removed, nat_log, track_arp, now, probes,
                   traffic_type, remote, switches, added>>

NextMerge ==
    \/ ArpTrigger
    \/ MergeOption
    \/ MergeGetInterface
    \/ MergeGetDhcp
    \/ MergeGetInterfaceTraffic

SpecMerge == Init /\ [][NextMerge]_vars

\* A run of get_dhcp, of get_interface and of get_interface_traffic.
DhcpStep == pc["timer"] = "get_dhcp" /\ pc'["timer"] # "get_dhcp"

InterfaceStep == pc["timer"] = "get_interface" /\ pc'["timer"] # "get_interface"

TrafficStep ==
    pc["timer"] = "get_interface_traffic" /\ pc'["timer"] = "done"

InterfaceEnsured ==
    {"client-ip-address", "client-mac-address", "rx-bits-per-second",
     "tx-bits-per-second"}

\* C24: a run of get_interface leaves the client and rate fields of every
\* interface that was there as they were; a run of get_dhcp leaves the
\* parsed network of every network that had one as it was, leaves available
\* of every lease that was there as it was, and leaves the interface of
\* such a lease as it was or sets it to the interface of the lease's server.
C24_EnsuredFieldsKept ==
    [][/\ InterfaceStep
          => \A i \in DOMAIN data.interface :
                \A old \in {data.interface[i]} :
                   \A f \in InterfaceEnsured :
                      Get(data'.interface, old.k)[f] = old.v[f]
       /\ DhcpStep
          => /\ \A i \in DOMAIN data.dhcp_network :
                   \A old \in {data.dhcp_network[i]} :
                      old.v["IPv4Network"] # ""
                      => Get(data'.dhcp_network, old.k)["IPv4Network"]
                            = old.v["IPv4Network"]
             /\ \A i \in DOMAIN data.dhcp :
                   \A old \in {data.dhcp[i]} :
                   \A new \in {Get(data'.dhcp, old.k)} :
                      /\ new["available"] = old.v["available"]
                      /\ \/ new["interface"] = old.v["interface"]
                         \/ /\ Has(data'.dhcp_server, new["server"])
                            /\ new["interface"]
                                  = Get(data'.dhcp_server, new["server"])["interface"]]_vars

\* C24 witness: get_interface has just run on a raw record of ether1, which
\* keeps the rate 8 of an earlier cycle, while a network of an earlier cycle
\* has its parsed network and a lease its interface.
C24_Witness ==
    /\ pc["timer"] = "get_dhcp"
    /\ Len(src["/interface"]) = 1
    /\ Has(data.interface, "ether1")
    /\ Get(data.interface, "ether1")["rx-bits-per-second"] = 8
    /\ Has(data.dhcp_network, "10.0.0.0/24")
    /\ Get(data.dhcp_network, "10.0.0.0/24")["IPv4Network"] # ""
    /\ Has(data.dhcp, "M1")
    /\ Get(data.dhcp, "M1")["interface"] = "ether1"

\* C25: after a run of get_interface, the interface stored under the
\* default-name of a raw record that has no name field has that
\* default-name as its name.
C25_NameDefaultsToDefaultName ==
    [][InterfaceStep
       => \A i \in DOMAIN src'["/interface"] :
             \A e \in {src'["/interface"][i]} :
                ("default-name" \in DOMAIN e /\ "name" \notin DOMAIN e)
                => /\ Has(data'.interface, e["default-name"])
                   /\ Get(data'.interface, e["default-name"])["name"]
                         = e["default-name"]]_vars

\* C25 witness: ether1, of which the traffic of "lan" was read in an
\* earlier cycle, has just been read without a name and is called "ether1".
C25_Witness ==
    /\ pc["timer"] = "get_dhcp"
    /\ src["/interface"] = <<("default-name" :> "ether1")>>
    /\ src["/interface/monitor-traffic"] # <<>>
    /\ src["/interface/monitor-traffic"][1]["name"] = "lan"
    /\ Has(data.interface, "ether1")
    /\ Get(data.interface, "ether1")["name"] = "ether1"

\* n is an integer nearest to raw divided by the divisor of the option.
NearestScaled(n, raw, option) ==
    /\ 2 * (raw - n * UnitDivisor(option)) <= UnitDivisor(option)
    /\ 2 * (n * UnitDivisor(option) - raw) <= UnitDivisor(option)

\* C28: after a run of get_interface_traffic, the rates of an interface
\* that the traffic records name are the raw counters scaled once by the
\* divisor of the configured unit and rounded, and the rates of an
\* interface that no traffic record names are as they were before the run.
C28_TrafficScaledOnce ==
    [][TrafficStep
       => \A i \in DOMAIN data'.interface :
          \A new \in {data'.interface[i]} :
          \A raw \in {src'["/interface/monitor-traffic"]} :
             /\ \A j \in DOMAIN raw :
                   raw[j]["name"] = new.v["name"]
                   => /\ NearestScaled(new.v["rx-bits-per-second"],
                                       raw[j]["rx-bits-per-second"], traffic_type)
                      /\ NearestScaled(new.v["tx-bits-per-second"],
                                       raw[j]["tx-bits-per-second"], traffic_type)
             /\ (\A j \in DOMAIN raw : raw[j]["name"] # new.v["name"])
                => /\ new.v["rx-bits-per-second"]
                         = Get(data.interface, new.k)["rx-bits-per-second"]
                   /\ new.v["tx-bits-per-second"]
                         = Get(data.interface, new.k)["tx-bits-per-second"]]_vars

-----------------------------------------------------------------------------
(* The order of the sub-fetches of a cycle *)

\* The position of sub-fetch name in a cycle.
Rank(name) ==
    CASE name = "get_interface" -> 1
      [] name = "get_arp" -> 2
      [] name = "get_dns" -> 3
      [] name = "get_dhcp" -> 4
      [] name = "process_host" -> 5
      [] name = "get_interface_traffic" -> 6
      [] name = "get_interface_client" -> 7
      [] name = "get_nat" -> 8
      [] name = "get_system_resource" -> 9
      [] name = "get_script" -> 10
      [] name = "get_queue" -> 11

Ranked == {SubFetches[i] : i \in DOMAIN SubFetches}

\* The update tasks that are at a sub-fetch.
Fetching == {t \in UpdateTasks : pc[t] \in Ranked}

\* C27: an update task enters its first sub-fetch, get_interface, from the
\* acquisition of the lock or from the firmware check made under it; it
\* enters every other sub-fetch from the sub-fetch ranked just before it,
\* and leaves a sub-fetch only for the next one, for the dispatch after the
\* last one or by an exception; the interface fetch is ranked before the
\* ARP, DNS and DHCP fetches, those four before the host merge, and the
\* interface fetch before client resolution; and at no time are two update
\* tasks at a sub-fetch.
C27_SubFetchesInOrder ==
    [][/\ \A t \in UpdateTasks :
             pc'[t] # pc[t]
             => /\ pc'[t] = "get_interface"
                   => pc[t] \in {"acquire", "fw_dispatch"}
                /\ (pc'[t] \in Ranked /\ pc'[t] # "get_interface")
                   => pc[t] \in Ranked /\ Rank(pc'[t]) = Rank(pc[t]) + 1
                /\ pc[t] \in Ranked
                   => \/ pc'[t] \in Ranked /\ Rank(pc'[t]) = Rank(pc[t]) + 1
                      \/ pc'[t] = "dispatch" /\ Rank(pc[t]) = 11
                      \/ pc'[t] = "failed"
       /\ Cardinality({t \in UpdateTasks : pc'[t] \in Ranked}) <= 1]_vars

\* C27 witness: in the first cycle, before any queue has been read, the
\* timer's task is at the host merge with the interface, ARP, DNS and DHCP
\* answers of the cycle fetched, while the switch's task waits for the lock.
C27_Witness ==
    /\ pc["timer"] = "process_host"
    /\ pc["switch"] = "acquire"
    /\ Fetching = {"timer"}
    /\ data.queue = <<>>
    /\ src["/interface"] # <<>>
    /\ src["/ip/arp"] # <<>>
    /\ src["/ip/dns/static"] # <<>>
    /\ src["/ip/dhcp-server/network"] # <<>>

-----------------------------------------------------------------------------
(* Bridge hosts *)

\* The valid entries of ARP table arp on the bridge that carry MAC mac.
BridgeArpOf(arp, mac) ==
    {i \in DOMAIN arp :
        /\ ~arp[i]["invalid"]
        /\ arp[i]["interface"] = "bridge"
        /\ arp[i]["mac-address"] = mac}

\* The side table's address for mac: that of the last valid bridge ARP
\* entry with this MAC, or empty when there is none.
SideTable(arp, mac) ==
    IF BridgeArpOf(arp, mac) = {} THEN ""
    ELSE arp[CHOOSE i \in BridgeArpOf(arp, mac) :
                \A j \in BridgeArpOf(arp, mac) : j <= i]["address"]

\* C29: after a run of get_interface_client with ARP tracking enabled that
\* read no valid ARP entry on the bridge, the bridge host table was not
\* requested and exactly the interfaces with a valid ARP entry have a
\* scratch slot; after a run that read one, an interface with no valid ARP
\* entry has no slot when no bridge host other than local ones resolves to
\* it, and when exactly one does its slot carries that host's MAC and, as
\* address, the address of the bridge ARP entry with that same MAC, or the
\* empty string when there is none.
C29_BridgeHostsJoined ==
    [][ArpRunTracked
       => \A arp \in {src'["/ip/arp"]} :
          \A hosts \in {src'["/interface/bridge/host"]} :
             /\ ~BridgeSeen(arp)
                => /\ hosts = src["/interface/bridge/host"]
                   /\ Keys(data'.arp_tmp)
                         = {uid \in Keys(data.interface) : ValidArpOn(arp, uid) # {}}
             /\ BridgeSeen(arp)
                => \A uid \in Keys(data.interface) :
                      ValidArpOn(arp, uid) = {}
                      => /\ HostsOn(hosts, uid) = {} => ~Has(data'.arp_tmp, uid)
                         /\ \A i \in HostsOn(hosts, uid) :
                               HostsOn(hosts, uid) = {i}
                               => /\ Has(data'.arp_tmp, uid)
                                  /\ Get(data'.arp_tmp, uid)["mac-address"]
                                        = hosts[i]["mac-address"]
                                  /\ Get(data'.arp_tmp, uid)["address"]
                                        = SideTable(arp, hosts[i]["mac-address"])]_vars

\* C29 witness: the run read one ARP entry, on the bridge, and a bridge
\* host on port "lan" whose MAC has no ARP entry; the slot of ether1 has
\* the host's MAC and an empty address.
C29_Witness ==
    /\ pc["timer"] = "done"
    /\ track_arp
    /\ src["/ip/arp"] = <<ArpEntry("M3", "A3", "bridge", FALSE)>>
    /\ src["/interface/bridge/host"] = <<HostEntry("M6", "lan", FALSE)>>
    /\ Has(data.arp_tmp, "ether1")
    /\ Get(data.arp_tmp, "ether1")["mac-address"] = "M6"
    /\ Get(data.arp_tmp, "ether1")["address"] = ""

\* C29 witness: the only bridge host read is the port's own MAC, flagged
\* local, and ether1 has no slot.
C29_WitnessLocal ==
    /\ pc["timer"] = "done"
    /\ track_arp
    /\ src["/ip/arp"] = <<ArpEntry("M3", "A3", "bridge", FALSE)>>
    /\ src["/interface/bridge/host"] = <<HostEntry("M5", "lan", TRUE)>>
    /\ data.arp_tmp = <<>>

-----------------------------------------------------------------------------
(* get_interface_client run against ARP entries of every shape *)

\* The ARP entries the router can report: a valid one on port "lan", one
\* flagged invalid, one without an interface field, one on an interface
\* that no interface is named after, and one without the invalid flag.
ArpRawEntries ==
    {ArpEntry("M1", "A1", "lan", FALSE),
     ArpEntry("M4", "A4", "lan", TRUE),
     Rec3("mac-address", "M7", "address", "A7", "invalid", FALSE),
     ArpEntry("M8", "A8", "wan", FALSE),
     Rec3("mac-address", "M9", "address", "A9", "interface", "lan")}

ArpRawTables == SeqsUpTo(ArpRawEntries, MaxArpEntries)

\* Line 203, with no ARP entry on the bridge.
ArpRawGetInterfaceClient ==
    /\ pc["timer"] = "get_interface_client"
    /\ \E a \in ArpRawTables :
          LET r == get_interface_client(data, track_arp, a, <<>>)
          IN /\ data' = r.d
             /\ Goto("timer", IF r.raised THEN "failed" ELSE "done")
             /\ src' = [src EXCEPT !["/ip/arp"] = IF track_arp THEN a ELSE @]
    /\ UNCHANGED <<lock, sent, nat_removed, nat_log, track_arp, now, probes, traffic_type, remote, switches, added>>

NextArpRaw ==
    \/ ArpTrigger
    \/ ArpOption
    \/ ArpGetInterface
    \/ ArpRawGetInterfaceClient

SpecArpRaw == Init /\ [][NextArpRaw]_vars

\* The keys of the first interface, in dict order, named name.
FirstNamed(interface, name) ==
    {interface[i].k : i \in {j \in DOMAIN interface :
                               /\ interface[j].v["name"] = name
                               /\ \A h \in 1..(j - 1) :
                                     interface[h].v["name"] # name}}

\* The entries of ARP table arp that contribute to the slot of uid: not
\* flagged invalid, with an interface field naming an interface other
\* than the bridge, which resolves to uid.
Contributing(arp, uid) ==
    {i \in DOMAIN arp :
        /\ "invalid" \in DOMAIN arp[i]
        /\ ~arp[i]["invalid"]
        /\ "interface" \in DOMAIN arp[i]
        /\ arp[i]["interface"] # "bridge"
        /\ uid \in FirstNamed(data.interface, arp[i]["interface"])}

\* C30: a run of get_interface_client with ARP tracking enabled returns
\* whatever the shape of the ARP entries, and afterwards an interface has a
\* scratch slot exactly when a contributing entry resolves to it; the slot
\* holds that entry's MAC and address when there is one such entry and
\* "multiple" when there are more.
C30_OddArpEntriesIgnored ==
    [][(pc["timer"] = "get_interface_client" /\ pc'["timer"] # pc["timer"]
        /\ track_arp)
       => /\ pc'["timer"] = "done"
          /\ \A arp \in {src'["/ip/arp"]} :
             \A uid \in Keys(data.interface) :
             \A on \in {Contributing(arp, uid)} :
                /\ Has(data'.arp_tmp, uid) <=> on # {}
                /\ \A i \in on :
                      /\ Get(data'.arp_tmp, uid)["mac-address"]
                            = IF on = {i} THEN arp[i]["mac-address"]
                              ELSE "multiple"
                      /\ Get(data'.arp_tmp, uid)["address"]
                            = IF on = {i} THEN arp[i]["address"]
                              ELSE "multiple"]_vars

-----------------------------------------------------------------------------
(* Remote actions: set_value and run_script, called between and during     *)
(* poll cycles                                                             *)

\* What api.run_script can do: return, or raise ApiEntryNotFound when no
\* script has the name.
RunScriptOutcomes == {"return", "ApiEntryNotFound"}

\* What api.update can return: success or failure.
UpdateOutcomes == {"True", "False"}

\* Lines 234-239: what run_script gives its caller when api.run_script
\* ends with outcome; the exception is logged and not raised again.
run_script(outcome) == "None"

\* Lines 227-229: what set_value gives its caller when api.update returns
\* outcome.
set_value(outcome) == outcome

\* A script entity runs its script.
ActRunScript ==
    /\ \E o \in RunScriptOutcomes :
          remote' = [call |-> "run_script", args |-> <<>>, api |-> o,
                     reply |-> run_script(o)]
    /\ UNCHANGED <<pc, lock, sent, data, nat_removed, nat_log, src, track_arp,
                   now, probes, traffic_type, switches, added>>

\* switch.py lines 324-340: a switch is turned on or off; set_value is
\* called, its result is dropped and a poll cycle is requested, which
\* starts when none is running.
ActSwitchToggle ==
    /\ \E o \in UpdateOutcomes :
          remote' = [call |-> "set_value", args |-> <<>>, api |-> o,
                     reply |-> set_value(o)]
    /\ pc' = IF pc["timer"] \in {"idle", "done"}
             THEN [pc EXCEPT !["timer"] = "get_interface"] ELSE pc
    /\ UNCHANGED <<lock, sent, data, nat_removed, nat_log, src, track_arp, now,
                   probes, traffic_type, switches, added>>

NextAct ==
    \/ ArpTrigger
    \/ MergeGetInterface
    \/ MergeGetDhcp
    \/ MergeGetInterfaceTraffic
    \/ ActRunScript
    \/ ActSwitchToggle

SpecAct == Init /\ [][NextAct]_vars

\* The API outcomes that are a failure of the remote action.
ActFailed == {"ApiEntryNotFound", "False"}

\* What the caller of a remote action gets when the action succeeded.
ActSuccessReply == {"None", "True"}

\* C26: a remote action leaves every collection of the model as it was,
\* and when the API did not find the entry the caller is given something
\* other than what it is given on success.
C26_FailureReported ==
    [][remote' # remote
       => /\ data' = data
          /\ remote'.api \in ActFailed => remote'.reply \notin ActSuccessReply]_vars

-----------------------------------------------------------------------------
(* The interface of a lease *)

\* C31: every run of get_dhcp returns, and afterwards the server every
\* lease names is in the DHCP server collection and the lease's interface
\* is the interface of that server.
C31_LeaseInterfaceFromServer ==
    [][DhcpStep
       => /\ pc'["timer"] # "failed"
          /\ \A i \in DOMAIN data'.dhcp :
                \A lease \in {data'.dhcp[i].v} :
                   /\ Has(data'.dhcp_server, lease["server"])
                   /\ lease["interface"]
                         = Get(data'.dhcp_server, lease["server"])["interface"]]_vars

-----------------------------------------------------------------------------
(* The lock after a cycle has ended *)

\* C32: the lock is locked only while a task is between acquiring and
\* releasing it: once every run of async_update and hwinfo_update has
\* ended, by its last statement, by a skip or by an exception, the lock is
\* free for the next trigger.
C32_LockReleasedOnExit ==
    lock => \E t \in Tasks : Holds(t)

-----------------------------------------------------------------------------
(* The bounded wait for the lock *)

\* The tasks that wait for the lock: the two runs of async_update and
\* hwinfo_update.
WaitTasks == UpdateTasks \cup {"hwinfo"}

NextWait ==
    \E t \in WaitTasks :
        \/ Trigger(t)
        \/ Acquire(t)
        \/ AcquireTimeout(t)
        \/ FwUpdateJob(t)
        \/ FwUpdateDispatch(t)
        \/ GetInterfaceJob(t)
        \/ GetArpJob(t)
        \/ GetDnsJob(t)
        \/ GetDhcpJob(t)
        \/ ProcessHostJob(t)
        \/ GetInterfaceClientJob(t)
        \/ GetNatJob(t)
        \/ GetSystemResourceJob(t)
        \/ GetScriptJob(t)
        \/ GetInterfaceTrafficJob(t)
        \/ GetQueueJob(t)
        \/ DispatchAndRelease(t)
        \/ HwinfoRouterboardJob(t)
        \/ HwinfoResourceJob(t)

\* wait_for(self.lock.acquire(), timeout=10) ends within ten seconds, by
\* the lock or by the timeout; nothing is assumed about the router ever
\* answering a sub-fetch, nor about a trigger ever coming.
SpecWait ==
    /\ Init
    /\ [][NextWait]_vars
    /\ \A t \in WaitTasks : WF_vars(Acquire(t) \/ AcquireTimeout(t))

\* C33: a task that waits for the lock leaves the wait, into its cycle or
\* skipped, whether or not the task that holds the lock ever goes on.
C33_WaitIsBounded ==
    \A t \in WaitTasks :
        (pc[t] = "acquire") ~> (pc[t] # "acquire")

\* C33 witness: the timer's cycle ended by an exception and keeps the lock
\* for ever; the switch's and the hardware-info triggers that came after
\* it were skipped.
C33_Witness ==
    /\ pc["timer"] = "failed"
    /\ lock
    /\ pc["switch"] = "skipped"
    /\ pc["hwinfo"] = "skipped"

-----------------------------------------------------------------------------
(* The switch platform: update_items on every notification and the turn    *)
(* handlers of the entities, next to the cycles that read the interfaces   *)
(* and the NAT rules                                                       *)

\* The interfaces as /interface reports them: ether1 enabled, ether1
\* disabled next to the wireless interface wlan1.
SwInterfaces ==
    {<<Rec3("default-name", "ether1", "name", "ether1", "disabled", FALSE)>>,
     <<Rec3("default-name", "ether1", "name", "ether1", "disabled", TRUE),
       Rec3("default-name", "wlan1", "name", "wlan1", "disabled", FALSE)>>}

\* The NAT tables the router reports: none, one rule, two rules for the
\* same protocol and port.
SwNatTables ==
    {<<>>,
     <<NatRule("*1", "dst-nat", "80")>>,
     <<NatRule("*1", "dst-nat", "80"), NatRule("*2", "dst-nat", "80")>>}

\* Line 197.
SwGetInterface ==
    /\ pc["timer"] = "get_interface"
    /\ \E s \in SwInterfaces :
          /\ data' = get_interface(data, s)
          /\ Fetched("/interface", s)
    /\ Goto("timer", "get_nat")
    /\ UNCHANGED <<lock, sent, nat_removed, nat_log, track_arp, now, probes,
                   traffic_type, remote, switches, added>>

\* Line 204.
SwGetNat ==
    /\ pc["timer"] = "get_nat"
    /\ \E s \in SwNatTables :
          LET r == get_nat(data.nat, nat_removed, nat_log, s)
          IN /\ data' = [data EXCEPT !.nat = r.nat]
             /\ nat_removed' = r.nat_removed
             /\ nat_log' = r.nat_log
             /\ Fetched("/ip/firewall/nat", s)
    /\ Goto("timer", "done")
    /\ UNCHANGED <<lock, sent, track_arp, now, probes, traffic_type, remote,
                   switches, added>>

\* Lines 104-121: signal_update reaches update_controller, after a cycle,
\* after a firmware check or at the setup of the platform; every entity
\* may be disabled in the entity registry or not.
SwNotify ==
    /\ \E off \in {{}, Keys(switches)} :
          LET r == update_items(data, switches, off)
          IN /\ switches' = r.switches
             /\ added' = r.added
    /\ UNCHANGED <<pc, lock, sent, data, nat_removed, nat_log, src, track_arp,
                   now, probes, traffic_type, remote>>

\* self._data of entity e: the record the entity was made from.
EntityData(e) ==
    IF Has(data_path(data, e.kind), e.uid)
    THEN Get(data_path(data, e.kind), e.uid) ELSE EmptyRec

\* A turn handler ran up to its await: call names the handler, r is what
\* it did; the update cycle it requests starts when none is running.
Turned(call, r) ==
    /\ \E o \in UpdateOutcomes :
          remote' = [call |-> call, args |-> r.args,
                     api |-> IF r.args = <<>> THEN "none" ELSE o,
                     reply |-> r.reply]
    /\ pc' = IF r.cycle /\ pc["timer"] \in {"idle", "done"}
             THEN [pc EXCEPT !["timer"] = "get_interface"] ELSE pc
    /\ UNCHANGED <<lock, sent, data, nat_removed, nat_log, src, track_arp, now,
                   probes, traffic_type, switches, added>>

\* switch.py lines 324-340, run on an entity that does not override them.
SwBaseTurn ==
    \E i \in DOMAIN switches, on \in BOOLEAN :
        /\ Has(data_path(data, switches[i].v.kind), switches[i].v.uid)
        /\ Turned(IF on THEN "async_turn_on" ELSE "async_turn_off",
                  switch_turn(switches[i].v.kind, EntityData(switches[i].v), on))

\* switch.py lines 417-453.
SwPortTurn ==
    \E i \in DOMAIN switches, on \in BOOLEAN :
        /\ switches[i].v.kind = "interface"
        /\ Turned(IF on THEN "port_turn_on" ELSE "port_turn_off",
                  port_turn(EntityData(switches[i].v), on))

\* switch.py lines 470-502.
SwNatTurn ==
    \E i \in DOMAIN switches, on \in BOOLEAN :
        /\ switches[i].v.kind = "nat"
        /\ Turned(IF on THEN "nat_turn_on" ELSE "nat_turn_off",
                  nat_turn(data.nat, EntityData(switches[i].v), on))

NextSwitch ==
    \/ ArpTrigger
    \/ SwGetInterface
    \/ SwGetNat
    \/ SwNotify
    \/ SwBaseTurn
    \/ SwPortTurn
    \/ SwNatTurn

SpecSwitch == Init /\ [][NextSwitch]_vars

\* A step in which a turn handler named in calls ran with a new effect.
TurnStep(calls) == remote' # remote /\ remote'.call \in calls

C35_OneEntityPerItem ==
    [][(switches' # switches \/ added' # added)
       => /\ Len(switches') >= Len(switches)
          /\ \A i \in DOMAIN switches : switches'[i] = switches[i]
          /\ \A i \in DOMAIN switches', j \in DOMAIN switches' :
                switches'[i].k = switches'[j].k => i = j
          /\ added'.scheduled \subseteq Keys(switches) \ added'.off
          /\ Len(added'.calls) <= 1
          /\ \A c \in DOMAIN added'.calls :
                /\ added'.calls[c] # <<>>
                /\ added'.calls[c]
                      = [n \in 1..(Len(switches') - Len(switches)) |->
                            switches'[Len(switches) + n].v]
          /\ added'.calls = <<>> => switches' = switches]_vars

\* C35 witness: a notification came when both ether1 and a NAT rule had
\* their entity: nothing was added and both were scheduled for a refresh.
C35_Witness ==
    /\ Len(switches) >= 2
    /\ added.calls = <<>>
    /\ added.scheduled = Keys(switches)
    /\ \E i \in DOMAIN switches : switches[i].v.kind = "nat"

\* C36: a run of a NAT switch's turn handler ends without an error and
\* makes one mutate call, whose match value is the router id of a rule of
\* the NAT collection.
C36_NatToggleFindsRule ==
    [][TurnStep({"nat_turn_on", "nat_turn_off"})
       => /\ remote'.reply # "KeyError"
          /\ Len(remote'.args) = 1
          /\ remote'.args[1].param = ".id"
          /\ remote'.args[1].value # None
          /\ \E i \in DOMAIN data.nat :
                data.nat[i].v[".id"] = remote'.args[1].value]_vars

\* C37: a run of a port switch's turn handler ends without an error;
\* either it returns "managed by CAPsMAN", makes no mutate call and
\* requests no cycle, or its first mutate call sets "disabled" and an
\* update cycle is requested or under way afterwards.
C37_PortToggleCompletes ==
    [][TurnStep({"port_turn_on", "port_turn_off"})
       => /\ remote'.reply # "KeyError"
          /\ \/ /\ remote'.reply = "managed by CAPsMAN"
                /\ remote'.args = <<>>
                /\ pc' = pc
             \/ /\ remote'.reply = "None"
                /\ Len(remote'.args) >= 1
                /\ remote'.args[1].mod_param = "disabled"
                /\ pc'["timer"] \notin {"idle", "done"}]_vars

====
